---- MODULE Spec2Model ----
(***************************************************************************)
(* Talos Governance Agent: the append-only execution log (SQLite adapter), *)
(* the capability validator and the runtime state machine                  *)
(* (authorize_tool_call, record_tool_effect, recover).                     *)
(*                                                                         *)
(* Abstractions.  SHA-256 is an injective function of its preimage: a      *)
(* digest is the record [enc, pre] of its text encoding and the canonical  *)
(* preimage it was computed over.  uuid7() is a fresh identifier: the      *)
(* session id is named after the token and the number of session records   *)
(* that token has, the idempotency key after the session id, the id of an  *)
(* effect after the place of its entry.  The wall clock is the variable    *)
(* now.  The ts field of an entry and the created_at and last_seen_at      *)
(* fields of a session are left out (no operation reads them).             *)
(* One SQLite transaction (everything up to db.commit()) is one step.      *)
(***************************************************************************)
EXTENDS Integers, Sequences, FiniteSets, TLC

(* ---------------------------------------------------------------- bounds *)
\* accepted direct append_log_entry calls (calls made on the store itself)
MaxDirect == 1
\* last reading of the clock
MaxTime == 1
\* entries a trace of the in-memory store may hold
MaxMemLen == 3

Traces == {"t1", "t2"}
Tasks == {"A", "B"}

VARIABLES
    logs,       \* execution_logs: trace_id -> entries in sequence order
    states,     \* execution_states: trace_id -> derived state (or NoState)
    sessions,   \* sessions table: a set of session records
    locked,     \* SqliteStateStore._locks: trace_id -> the asyncio.Lock is held
    tasks,      \* the runtime operations in flight, one record per coroutine
    directLeft, \* direct append_log_entry calls still allowed by MaxDirect
    now,        \* the wall clock
    memLogs,    \* MemoryStateStore._log_entries: trace_id -> entries
    memStates,  \* MemoryStateStore._states: trace_id -> state (or NoState)
    lastRecovery \* what the caller's last recover call came to, kept if
                \* nothing else wrote to the trace during the call and for
                \* as long as nothing else is called

vars == <<logs, states, sessions, locked, tasks, directLeft, now,
          memLogs, memStates, lastRecovery>>

(* ------------------------------------------------------- enums, digests *)
PENDING == "PENDING"
AUTHORIZED == "AUTHORIZED"
EXECUTING == "EXECUTING"
COMPLETED == "COMPLETED"
FAILED == "FAILED"
DENIED == "DENIED"

ExecutionStateEnum == {PENDING, AUTHORIZED, EXECUTING, COMPLETED, FAILED, DENIED}

ACTION_REQUEST == "action_request"
SUPERVISOR_DECISION == "supervisor_decision"
TOOL_CALL == "tool_call"
TOOL_EFFECT == "tool_effect"

ArtifactType == {ACTION_REQUEST, SUPERVISOR_DECISION, TOOL_CALL, TOOL_EFFECT}

ALLOWED_TRANSITIONS ==
    { <<PENDING, AUTHORIZED>>, <<PENDING, DENIED>>, <<AUTHORIZED, EXECUTING>>,
      <<EXECUTING, COMPLETED>>, <<EXECUTING, FAILED>> }

\* 43 'A' characters: 32 zero bytes in unpadded base64url
ZERO_DIGEST == [enc |-> "b64url43", pre |-> <<>>]

\* the empty string: the state_digest="" a new ExecutionState is given in
\* MemoryStateStore._update_state
EMPTY_DIGEST == [enc |-> "empty", pre |-> <<>>]

\* BASE64URL_PATTERN, ^[A-Za-z0-9_-]+$: one character at least
MatchesBase64Url(d) == d.enc # "empty"

\* base64.urlsafe_b64encode(sha256(canonical)).rstrip("=")
B64Digest(preimage) == [enc |-> "b64url43", pre |-> <<preimage>>]

\* hashlib.sha256(...).hexdigest()
HexDigest(preimage) == [enc |-> "hex64", pre |-> <<preimage>>]

\* the JSON object a digest is computed over, by the fields that vary
Payload(kind, ref, server, name, sid, idem) ==
    [kind |-> kind, ref |-> ref, server |-> server, name |-> name,
     sid |-> sid, idem |-> idem]

\* an identifier: what it names (a session, an idempotency key, an effect,
\* a plan, ...), the token or trace it is named after, and a number
Id(kind, ref, n) == [kind |-> kind, ref |-> ref, n |-> n]
NoId == Id("none", "none", 0)

\* an artifact_id: a string; v7 says whether it matches UUIDV7_PATTERN
ArtifactId(id, v7) == [id |-> id, v7 |-> v7]
NoArtifactId == ArtifactId(NoId, FALSE)

\* TgaRuntime._compute_digest
ComputeDigest(data) == B64Digest(data)

\* CapabilityValidator.calculate_capability_digest
CalculateCapabilityDigest(tokenId) ==
    HexDigest(Payload("jws", tokenId, "none", "none", NoId, NoId))

\* the fields of an entry its digest covers (entry_digest itself excluded)
EntryPreimage(e) ==
    [trace_id |-> e.trace_id, principal_id |-> e.principal_id,
     sequence_number |-> e.sequence_number,
     prev_entry_digest |-> e.prev_entry_digest,
     from_state |-> e.from_state, to_state |-> e.to_state,
     artifact_type |-> e.artifact_type, artifact_id |-> e.artifact_id,
     artifact_digest |-> e.artifact_digest, tool_call_id |-> e.tool_call_id,
     idempotency_key |-> e.idempotency_key, session_id |-> e.session_id]

\* TgaBaseModel.compute_digest on an ExecutionLogEntry
EntryDigest(e) == B64Digest(EntryPreimage(e))

\* an ExecutionLogEntry with the digest given
Entry(pre, digest) ==
    [trace_id |-> pre.trace_id, principal_id |-> pre.principal_id,
     sequence_number |-> pre.sequence_number,
     prev_entry_digest |-> pre.prev_entry_digest,
     entry_digest |-> digest,
     from_state |-> pre.from_state, to_state |-> pre.to_state,
     artifact_type |-> pre.artifact_type, artifact_id |-> pre.artifact_id,
     artifact_digest |-> pre.artifact_digest, tool_call_id |-> pre.tool_call_id,
     idempotency_key |-> pre.idempotency_key, session_id |-> pre.session_id]

\* TgaRuntime._make_entry: build the entry, then set its computed digest
MakeEntry(pre) == Entry(pre, EntryDigest(pre))

(* --------------------------------------------------------- derived state *)
NoState ==
    [present |-> FALSE, plan_id |-> NoArtifactId, current_state |-> "NONE",
     last_sequence_number |-> 0, last_entry_digest |-> ZERO_DIGEST,
     state_digest |-> ZERO_DIGEST]

StatePreimage(s) ==
    [plan_id |-> s.plan_id, current_state |-> s.current_state,
     last_sequence_number |-> s.last_sequence_number,
     last_entry_digest |-> s.last_entry_digest]

\* TgaBaseModel.compute_digest on an ExecutionState
StateDigest(s) == B64Digest(StatePreimage(s))

\* append_log_entry, "3. Update state": create from the entry or update in place
UpdateState(old, entry) ==
    LET s == [present |-> TRUE,
              plan_id |-> IF old.present THEN old.plan_id ELSE entry.artifact_id,
              current_state |-> entry.to_state,
              last_sequence_number |-> entry.sequence_number,
              last_entry_digest |-> entry.entry_digest,
              state_digest |-> ZERO_DIGEST]
    IN  [s EXCEPT !.state_digest = StateDigest(s)]

(* ------------------------------------------- SqliteStateStore: the log *)
Last(log) == log[Len(log)]

\* expected_seq = (last_row[0] + 1) if last_row else 1
ExpectedSeq(log) == IF log = <<>> THEN 1 ELSE Last(log).sequence_number + 1

\* a check that lets a gap through
SequenceOkLoose(log, entry) == entry.sequence_number >= ExpectedSeq(log)

SequenceOk(log, entry) == entry.sequence_number = ExpectedSeq(log)

\* the predecessor's digest, or ZERO_DIGEST for the first entry of a trace
ChainOk(log, entry) ==
    IF log # <<>>
    THEN entry.prev_entry_digest = Last(log).entry_digest
    ELSE entry.prev_entry_digest = ZERO_DIGEST

\* "High-integrity state transition check": PENDING -> PENDING is let through
\* whatever the sequence number, anything else must be an allowed transition
TransitionOk(entry) ==
    \/ entry.from_state = PENDING /\ entry.to_state = PENDING
    \/ <<entry.from_state, entry.to_state>> \in ALLOWED_TRANSITIONS

DigestOk(entry) == entry.entry_digest = EntryDigest(entry)

\* ExecutionState(...) is validated when it is created: plan_id, taken from
\* the entry's artifact_id, must match UUIDV7_PATTERN
StateValid(old, entry) == old.present \/ entry.artifact_id.v7

\* the outcome of append_log_entry(entry) on a trace with this log and state
AppendCode(log, old, entry) ==
    IF ~SequenceOk(log, entry) THEN "SEQUENCE_GAP"
    ELSE IF ~ChainOk(log, entry)
         THEN (IF log # <<>> THEN "HASH_CHAIN_BROKEN" ELSE "GENESIS_INVALID")
    ELSE IF ~TransitionOk(entry) THEN "INVALID_TRANSITION"
    ELSE IF ~DigestOk(entry) THEN "DIGEST_MISMATCH"
    ELSE IF ~StateValid(old, entry) THEN "VALIDATION_ERROR"
    ELSE "OK"

\* INSERT OR REPLACE keyed on the trace alone: the last row is overwritten
InsertEntryReplace(log, entry) ==
    IF log = <<>> THEN <<entry>> ELSE [log EXCEPT ![Len(log)] = entry]

\* INSERT INTO execution_logs
InsertEntry(log, entry) == Append(log, entry)

\* append_log_entry: validate, insert, update the state, commit; an error
\* before db.commit() leaves the tables as they were
AppendLogEntry(entry) ==
    LET t == entry.trace_id
        code == AppendCode(logs[t], states[t], entry)
    IN  IF code = "OK"
        THEN /\ logs' = [logs EXCEPT ![t] = InsertEntry(logs[t], entry)]
             /\ states' = [states EXCEPT ![t] = UpdateState(states[t], entry)]
        ELSE UNCHANGED <<logs, states>>

\* load_state
LoadState(t) == states[t]

\* list_log_entries(trace_id, after_seq)
ListLogEntries(t, after_seq) ==
    SelectSeq(logs[t], LAMBDA e : e.sequence_number > after_seq)

\* ExecutionLogEntry.model_validate(json.loads(row[0])): the digest fields of
\* a row must match BASE64URL_PATTERN
EntryParses(e) ==
    /\ MatchesBase64Url(e.prev_entry_digest)
    /\ MatchesBase64Url(e.entry_digest)
    /\ MatchesBase64Url(e.artifact_digest)

\* list_log_entries returns when every row it selects validates, and raises
\* pydantic's ValidationError otherwise
RowsParse(t, after_seq) ==
    \A i \in 1..Len(ListLogEntries(t, after_seq)) :
        EntryParses(ListLogEntries(t, after_seq)[i])

(* -------------------------------------------------- capability tokens *)
\* an exp no clock reading of the model reaches
Far == MaxTime + 1

GITHUB == "mcp-github"
\* a tool name is its prefix up to the first '-' and the rest
CREATE_PR == <<"create-", "pr">>
GET_PR == <<"get-", "pr">>

ToolServers == {GITHUB, "mcp-other"}
ToolNames == {CREATE_PR, GET_PR}

\* a JWS compact token, by what decode_and_verify reads of it.  nbf = 0 is
\* an absent nbf.  iss, trace_id and plan_id are UUIDv7 strings in every token;
\* arg_constraints tells whether constraints.arg_constraints is given
Token(id, sig, aud, exp, nbf, iss, nonce, trace, name, ro) ==
    [id |-> id, sig |-> sig, aud |-> aud, exp |-> exp, nbf |-> nbf,
     iss |-> iss, nonce |-> nonce, trace_id |-> trace, plan_id |-> "plan",
     tool_server |-> GITHUB, tool_name |-> name, read_only |-> ro,
     arg_constraints |-> FALSE]

GATEWAY == "talos-gateway"

\* two capabilities of different issuers for trace t1, the first one with
\* arg_constraints, the second one expiring at 1; a read-only capability for a mutation tool; a bad signature; another
\* audience; a capability not valid before Far; a string that is no JWS
Tokens ==
    { [Token("c1", "ok", GATEWAY, Far, 0, "p1", "n1", "t1", CREATE_PR, FALSE)
          EXCEPT !.arg_constraints = TRUE],
      Token("c2", "ok", GATEWAY, 1, 0, "p2", "n2", "t1", CREATE_PR, FALSE),
      Token("c4", "ok", GATEWAY, Far, 0, "p1", "n4", "t2", CREATE_PR, TRUE),
      Token("c5", "bad", GATEWAY, Far, 0, "p1", "n5", "t1", CREATE_PR, FALSE),
      Token("c6", "ok", "other-aud", Far, 0, "p1", "n6", "t1", CREATE_PR, FALSE),
      Token("c7", "ok", GATEWAY, Far, Far, "p1", "n7", "t2", GET_PR, TRUE),
      Token("c8", "malformed", GATEWAY, Far, 0, "p1", "n8", "t1", GET_PR, FALSE) }

NoToken == Token("none", "bad", "none", 0, 0, "none", "none", "none", GET_PR, FALSE)

\* CapabilityValidator.decode_and_verify: jwt.decode parses the token and
\* checks the signature, then nbf, exp and aud; what it raises is mapped to a
\* code by the handlers (DecodeError, InvalidSignatureError and
\* ImmatureSignatureError are PyJWTErrors)
DecodeAndVerify(tok, t) ==
    IF tok.sig # "ok" THEN "SIGNATURE_INVALID"
    ELSE IF tok.nbf > t THEN "SIGNATURE_INVALID"
    ELSE IF tok.exp <= t THEN "EXPIRED"
    ELSE IF tok.aud # GATEWAY THEN "AUDIENCE_MISMATCH"
    ELSE "OK"

MutationPrefixes == {"create-", "update-", "delete-", "write-", "apply-"}

\* CapabilityValidator.validate_tool_call up to the read-only check
ValidateToolCall(cap, tool_server, tool_name) ==
    IF cap.tool_server # tool_server \/ cap.tool_name # tool_name
    THEN "TOOL_UNAUTHORIZED"
    ELSE IF cap.read_only /\ tool_name[1] \in MutationPrefixes
    THEN "READ_ONLY_VIOLATION"
    ELSE "OK"

\* validate_tool_call, step 3: `if con.arg_constraints:` reads an attribute
\* the model class TgaCapabilityConstraints declares as arg_constraints_digest
\* (alias "arg_constraints"); the lookup yields the value or raises
\* AttributeError, as the installed pydantic decides
ArgConstraintsLookup == {"OK", "ATTRIBUTE_ERROR"}

(* ------------------------------------------------------------ sessions *)
\* the session_record dict of authorize_tool_call: the key, the unique pair,
\* the expiry, of constraints_json the tool it names and whether it carries
\* arg_constraints, and last_seen_at, the clock reading of line 114
SessionRecord(sid, cap, now_dt) ==
    [session_id |-> sid, principal_id |-> cap.iss, capability_jti |-> cap.nonce,
     expires_at |-> cap.exp, tool_server |-> cap.tool_server,
     tool_name |-> cap.tool_name, arg_constraints |-> cap.arg_constraints,
     last_seen_at |-> now_dt]

\* a sessions table with its primary key and no unique index on the pair
PutSessionOkKeyOnly(table, rec) ==
    \A s \in table : s.session_id # rec.session_id

\* put_session's INSERT: session_id is the primary key and
\* uq_sessions_principal_jti is unique on (principal_id, capability_jti)
PutSessionOk(table, rec) ==
    \A s \in table :
        /\ s.session_id # rec.session_id
        /\ ~(s.principal_id = rec.principal_id
             /\ s.capability_jti = rec.capability_jti)

\* put_session
PutSession(table, rec) == table \cup {rec}

\* session_id = str(uuid7()): an identifier no session record carries
NewSessionId(table, tok) ==
    Id("session", tok.id,
       1 + Cardinality({s \in table : s.session_id.ref = tok.id}))

\* the uuid7() of line 182: one idempotency key for each call, hence session
NewIdempotencyKey(sid) == Id("idempotency", sid.ref, sid.n)

\* the uuid7() of line 293: one for each effect entry made
NewEffectId(t, seq) == Id("effect", t, seq)

(* ----------------------------------------------------- tool effects *)
\* a tool_effect dict: whether it has "outcome", whether that has "status",
\* the status, and whether it has "tool_effect_id"
Effect(has_outcome, has_status, status, has_id) ==
    [has_outcome |-> has_outcome, has_status |-> has_status, status |-> status,
     has_id |-> has_id]

Effects ==
    { Effect(TRUE, TRUE, "SUCCESS", TRUE), Effect(TRUE, TRUE, "ERROR", TRUE),
      Effect(TRUE, FALSE, "none", TRUE), Effect(FALSE, FALSE, "none", FALSE) }

NoEffect == Effect(FALSE, FALSE, "none", FALSE)

\* tool_effect.get("outcome", {}).get("status", "SUCCESS")
OutcomeStatus(effect) ==
    IF effect.has_outcome /\ effect.has_status THEN effect.status ELSE "SUCCESS"

\* the part of the effect its digest varies with
OutcomeKey(effect) ==
    IF ~effect.has_outcome THEN "no-outcome"
    ELSE IF ~effect.has_status THEN "no-status" ELSE effect.status

\* final_state of record_tool_effect
FinalState(effect) ==
    IF OutcomeStatus(effect) = "SUCCESS" THEN COMPLETED ELSE FAILED

(* ------------------------------------------------------------ the tasks *)
EntryFields(t, principal, seq, prev, from, to, atype, aid, adigest, tcid, idem, sid) ==
    [trace_id |-> t, principal_id |-> principal, sequence_number |-> seq,
     prev_entry_digest |-> prev, from_state |-> from, to_state |-> to,
     artifact_type |-> atype, artifact_id |-> aid, artifact_digest |-> adigest,
     tool_call_id |-> tcid, idempotency_key |-> idem, session_id |-> sid]

\* a RecoveryResult
RecoveryResult(state, seq, re_dispatched) ==
    [recovered_state |-> state, recovered_from_seq |-> seq,
     re_dispatched |-> re_dispatched]

\* the idempotency key a RecoveryResult carries: its fields are trace_id,
\* recovered_state, recovered_from_seq, re_dispatched and tool_effect, which
\* recover leaves None; none of them holds a tool_call or its key
ResultIdempotencyKey(result) == NoId

NoRecovery == RecoveryResult("NONE", 0, FALSE)

\* what a call of recover(t) came to: "OK" and its RecoveryResult, or the code
\* of the error raised
LastRecovery(t, res, recovery) == [trace |-> t, res |-> res, recovery |-> recovery]
NoLastRecovery == LastRecovery("none", "none", NoRecovery)

\* a coroutine of the runtime: where it is (pc), its arguments and its locals
IdleTask ==
    [pc |-> "idle", op |-> "none", trace |-> "none", tok |-> NoToken,
     server |-> "none", name |-> GET_PR, effect |-> NoEffect, sid |-> NoId,
     st |-> NoState, prev |-> ZERO_DIGEST,
     principal |-> "none", res |-> "none", recovery |-> NoRecovery,
     args |-> "none", now |-> 0, count |-> 0]

\* the operation is over: "OK" or the code of the error it raised.  The entry
\* authorize_tool_call and record_tool_effect return is the one they appended
\* last (lines 198-199, 296-297); sid is the session the call has stored
DoneTask(task, code) ==
    [IdleTask EXCEPT !.pc = "done", !.op = task.op, !.res = code,
                     !.sid = task.sid]

\* pcs at which the coroutine is past acquire_trace_lock and before its release
AuthLockedPcs == {"auth_load", "auth_genesis", "auth_decision", "auth_reload",
                  "auth_tool_call"}
RecLockedPcs == {"rec_load", "rec_list", "rec_append"}
RcvLockedPcs == {"rcv_load", "rcv_list"}
LockedPcs == AuthLockedPcs \cup RecLockedPcs \cup RcvLockedPcs

\* acquire_trace_lock: the lock is made on first use; acquire() takes a free
\* lock without suspending and waits while it is held
CanAcquire(t) == ~locked[t]
Acquire(t) == locked' = [locked EXCEPT ![t] = TRUE]

\* the call of acquire_trace_lock by a task that goes on at pc `then`: it
\* holds the lock at once, or waits at pc `wait`
CallAcquire(k, task, wait, then) ==
    IF CanAcquire(task.trace)
    THEN /\ Acquire(task.trace)
         /\ tasks' = [tasks EXCEPT ![k] = [task EXCEPT !.pc = then]]
    ELSE /\ tasks' = [tasks EXCEPT ![k] = [task EXCEPT !.pc = wait]]
         /\ UNCHANGED locked

\* release_trace_lock: releases the trace's lock if it is held, whoever holds it
Release(t) == locked' = [locked EXCEPT ![t] = FALSE]

Init ==
    /\ logs = [t \in Traces |-> <<>>]
    /\ states = [t \in Traces |-> NoState]
    /\ sessions = {}
    /\ locked = [t \in Traces |-> FALSE]
    /\ tasks = [k \in Tasks |-> IdleTask]
    /\ directLeft = MaxDirect
    /\ now = 0
    /\ memLogs = [t \in Traces |-> <<>>]
    /\ memStates = [t \in Traces |-> NoState]
    /\ lastRecovery = NoLastRecovery

(* ----------------------------------------------- authorize_tool_call *)
\* the session record stored before the capability is verified
AuthorizeBeginPutFirst(k, tok, server, name, lookup) ==
    /\ tasks[k].pc = "idle"
    /\ LET rec == SessionRecord(NewSessionId(sessions, tok), tok, now)
           code == IF DecodeAndVerify(tok, now) # "OK"
                   THEN DecodeAndVerify(tok, now)
                   ELSE IF ValidateToolCall(tok, server, name) # "OK"
                   THEN ValidateToolCall(tok, server, name)
                   ELSE "INTERNAL_ERROR"
       IN  /\ sessions' = IF PutSessionOk(sessions, rec)
                          THEN PutSession(sessions, rec) ELSE sessions
           /\ tasks' = [tasks EXCEPT ![k] =
                  [IdleTask EXCEPT !.pc = "done", !.op = "authorize",
                                   !.res = code]]
    /\ UNCHANGED <<logs, states, locked, directLeft, now, memLogs, memStates>>
    /\ lastRecovery' = NoLastRecovery

\* lines 90-132: decode_and_verify, validate_tool_call, the session record,
\* put_session (an INSERT and its commit), then the call of acquire_trace_lock
AuthorizeBegin(k, tok, server, name, lookup) ==
    /\ tasks[k].pc = "idle"
    /\ LET sid == NewSessionId(sessions, tok)
           call == [IdleTask EXCEPT !.op = "authorize", !.tok = tok,
                                    !.trace = tok.trace_id,
                                    !.server = server, !.name = name]
           v1 == DecodeAndVerify(tok, now)
           v2 == ValidateToolCall(tok, server, name)
           rec == SessionRecord(sid, tok, now)
           fail(code) == /\ tasks' = [tasks EXCEPT ![k] = DoneTask(call, code)]
                         /\ UNCHANGED <<sessions, locked>>
       IN  IF v1 # "OK" THEN fail(v1)
           ELSE IF v2 # "OK" THEN fail(v2)
           ELSE IF lookup # "OK" THEN fail(lookup)
           ELSE IF ~PutSessionOk(sessions, rec) THEN fail("INTEGRITY_ERROR")
           ELSE /\ sessions' = PutSession(sessions, rec)
                /\ CallAcquire(k, [call EXCEPT !.sid = sid],
                               "auth_acquire", "auth_load")
    /\ UNCHANGED <<logs, states, directLeft, now, memLogs, memStates>>
    /\ lastRecovery' = NoLastRecovery

\* line 132: acquire_trace_lock returns to a task that waited for the lock
AuthAcquire(k) ==
    /\ tasks[k].pc = "auth_acquire"
    /\ CanAcquire(tasks[k].trace)
    /\ Acquire(tasks[k].trace)
    /\ tasks' = [tasks EXCEPT ![k].pc = "auth_load"]
    /\ UNCHANGED <<logs, states, sessions, directLeft, now,
                 memLogs, memStates, lastRecovery>>

\* line 134: state = await self.store.load_state(trace_id)
AuthLoadState(k) ==
    /\ tasks[k].pc = "auth_load"
    /\ LET st == LoadState(tasks[k].trace)
       IN  tasks' = [tasks EXCEPT ![k].st = st,
                                  ![k].pc = IF st.present THEN "auth_tool_call"
                                            ELSE "auth_genesis"]
    /\ UNCHANGED <<logs, states, sessions, locked, directLeft, now,
                 memLogs, memStates, lastRecovery>>

\* lines 140-150
GenesisEntry(task) ==
    MakeEntry(EntryFields(task.trace, task.tok.iss, 1, ZERO_DIGEST,
        PENDING, PENDING, ACTION_REQUEST,
        ArtifactId(Id("plan", task.tok.plan_id, 0), TRUE),
        ComputeDigest(Payload("implicit", "none", "none", "none", NoId, NoId)),
        NoId, NoId, NoId))

\* lines 153-163
AuthEntry(task) ==
    MakeEntry(EntryFields(task.trace, task.tok.iss, 2, task.prev,
        PENDING, AUTHORIZED, SUPERVISOR_DECISION,
        ArtifactId(Id("sd", task.trace, 0), FALSE),
        CalculateCapabilityDigest(task.tok.id),
        NoId, NoId, NoId))

\* lines 172-197
ToolCallEntry(task) ==
    LET idem == NewIdempotencyKey(task.sid)
    IN  MakeEntry(EntryFields(task.trace, task.tok.iss,
            task.st.last_sequence_number + 1, task.st.last_entry_digest,
            AUTHORIZED, EXECUTING, TOOL_CALL,
            ArtifactId(task.sid, TRUE),
            ComputeDigest(Payload("tool_call", task.tok.id, task.server,
                                  task.name[1], task.sid, idem)),
            task.sid, idem, task.sid))

\* one append of the operation, made under the lock: on an error the finally
\* clause releases the lock and the error leaves the operation
AuthAppend(k, entry, nextPc) ==
    LET task == tasks[k]
        code == AppendCode(logs[task.trace], states[task.trace], entry)
    IN  /\ AppendLogEntry(entry)
        /\ IF code = "OK"
           THEN /\ tasks' = [tasks EXCEPT ![k].pc = nextPc,
                                          ![k].prev = entry.entry_digest]
                /\ UNCHANGED locked
           ELSE /\ tasks' = [tasks EXCEPT ![k] = DoneTask(task, code)]
                /\ Release(task.trace)

\* lines 140-151: the genesis entry
AuthAppendGenesis(k) ==
    /\ tasks[k].pc = "auth_genesis"
    /\ AuthAppend(k, GenesisEntry(tasks[k]), "auth_decision")
    /\ UNCHANGED <<sessions, directLeft, now, memLogs, memStates,
                 lastRecovery>>

\* lines 153-164: the supervisor_decision entry
AuthAppendDecision(k) ==
    /\ tasks[k].pc = "auth_decision"
    /\ AuthAppend(k, AuthEntry(tasks[k]), "auth_reload")
    /\ UNCHANGED <<sessions, directLeft, now, memLogs, memStates,
                 lastRecovery>>

\* line 165: state = await self.store.load_state(trace_id)
AuthReloadState(k) ==
    /\ tasks[k].pc = "auth_reload"
    /\ tasks' = [tasks EXCEPT ![k].st = LoadState(tasks[k].trace),
                              ![k].pc = "auth_tool_call"]
    /\ UNCHANGED <<logs, states, sessions, locked, directLeft, now,
                 memLogs, memStates, lastRecovery>>

\* a check that only asks for some state
StateAuthorizedAny(st) == st.present

\* line 167: the state the tool_call entry may be appended in
StateAuthorized(st) == st.present /\ st.current_state = AUTHORIZED

\* the tool_call entry appended without the state check of line 167
AuthAppendToolCallUnchecked(k) ==
    /\ tasks[k].pc = "auth_tool_call"
    /\ LET task == tasks[k]
           entry == ToolCallEntry(task)
           code == AppendCode(logs[task.trace], states[task.trace], entry)
       IN  /\ AppendLogEntry(entry)
           /\ tasks' = [tasks EXCEPT ![k] = DoneTask(task, code)]
    /\ Release(tasks[k].trace)
    /\ UNCHANGED <<sessions, directLeft, now, memLogs, memStates,
                 lastRecovery>>

\* lines 167-202: the state check, the tool_call entry, the release
AuthAppendToolCall(k) ==
    /\ tasks[k].pc = "auth_tool_call"
    /\ LET task == tasks[k]
           entry == ToolCallEntry(task)
           code == AppendCode(logs[task.trace], states[task.trace], entry)
       IN  IF ~StateAuthorized(task.st)
           THEN /\ tasks' = [tasks EXCEPT ![k] = DoneTask(task, "INVALID_STATE")]
                /\ UNCHANGED <<logs, states>>
           ELSE /\ AppendLogEntry(entry)
                /\ tasks' = [tasks EXCEPT ![k] = DoneTask(task, code)]
    /\ Release(tasks[k].trace)
    /\ UNCHANGED <<sessions, directLeft, now, memLogs, memStates,
                 lastRecovery>>

(* ------------------------------------------------ record_tool_effect *)
\* the call, up to acquire_trace_lock (line 256).  The tool_effect argument
\* is first read at line 262 and is drawn there
RecordBegin(k, t) ==
    /\ tasks[k].pc = "idle"
    /\ CallAcquire(k, [IdleTask EXCEPT !.op = "record", !.trace = t],
                   "rec_acquire", "rec_load")
    /\ UNCHANGED <<logs, states, sessions, directLeft, now,
                 memLogs, memStates>>
    /\ lastRecovery' = NoLastRecovery

\* line 256: acquire_trace_lock returns to a task that waited for the lock
RecAcquire(k) ==
    /\ tasks[k].pc = "rec_acquire"
    /\ CanAcquire(tasks[k].trace)
    /\ Acquire(tasks[k].trace)
    /\ tasks' = [tasks EXCEPT ![k].pc = "rec_load"]
    /\ UNCHANGED <<logs, states, sessions, directLeft, now,
                 memLogs, memStates, lastRecovery>>

\* an effect is recorded whatever the state of the trace is
StateExecutingAny(st) == st.present

\* line 259: the state an effect may be recorded in
StateExecuting(st) == st.present /\ st.current_state = EXECUTING

\* lines 258-267
RecLoadState(k, effect) ==
    /\ tasks[k].pc = "rec_load"
    /\ LET st == LoadState(tasks[k].trace)
       IN  IF StateExecuting(st)
           THEN /\ tasks' = [tasks EXCEPT ![k].st = st, ![k].effect = effect,
                                          ![k].pc = "rec_list"]
                /\ UNCHANGED locked
           ELSE /\ tasks' = [tasks EXCEPT ![k] =
                                 DoneTask(tasks[k], "INVALID_STATE")]
                /\ Release(tasks[k].trace)
    /\ UNCHANGED <<logs, states, sessions, directLeft, now,
                 memLogs, memStates, lastRecovery>>

\* lines 277-283: the principal of the most recent entry
RecListEntries(k) ==
    /\ tasks[k].pc = "rec_list"
    /\ LET task == tasks[k]
           entries == ListLogEntries(task.trace, task.st.last_sequence_number - 1)
       IN  IF ~RowsParse(task.trace, task.st.last_sequence_number - 1)
           THEN /\ tasks' = [tasks EXCEPT ![k] =
                                 DoneTask(task, "VALIDATION_ERROR")]
                /\ Release(task.trace)
           ELSE IF entries # <<>>
           THEN /\ tasks' = [tasks EXCEPT ![k].principal = entries[1].principal_id,
                                          ![k].pc = "rec_append"]
                /\ UNCHANGED locked
           ELSE /\ tasks' = [tasks EXCEPT ![k] =
                                 DoneTask(task, "INTERNAL_ERROR")]
                /\ Release(task.trace)
    /\ UNCHANGED <<logs, states, sessions, directLeft, now,
                 memLogs, memStates, lastRecovery>>

\* lines 285-295
EffectEntry(task) ==
    LET seq == task.st.last_sequence_number + 1
    IN  MakeEntry(EntryFields(task.trace, task.principal,
            seq, task.st.last_entry_digest,
            EXECUTING, FinalState(task.effect), TOOL_EFFECT,
            ArtifactId(IF task.effect.has_id THEN Id("effect", "given", 0)
                       ELSE NewEffectId(task.trace, seq), TRUE),
            ComputeDigest(Payload("tool_effect", OutcomeKey(task.effect), "none",
                                  "none", NoId, NoId)),
            NoId, NoId, NoId))

\* lines 285-300: the effect entry, the release
RecAppend(k) ==
    /\ tasks[k].pc = "rec_append"
    /\ LET task == tasks[k]
           entry == EffectEntry(task)
           code == AppendCode(logs[task.trace], states[task.trace], entry)
       IN  /\ AppendLogEntry(entry)
           /\ tasks' = [tasks EXCEPT ![k] = DoneTask(task, code)]
    /\ Release(tasks[k].trace)
    /\ UNCHANGED <<sessions, directLeft, now, memLogs, memStates,
                 lastRecovery>>

(* ------------------------------------------------------------ recover *)
\* the call, up to acquire_trace_lock, awaited inside the try block (line 305)
RecoverBegin(k, t) ==
    /\ tasks[k].pc = "idle"
    /\ CallAcquire(k, [IdleTask EXCEPT !.op = "recover", !.trace = t],
                   "rcv_acquire", "rcv_load")
    /\ UNCHANGED <<logs, states, sessions, directLeft, now,
                 memLogs, memStates, lastRecovery>>

\* line 305: acquire_trace_lock returns to a task that waited for the lock
RcvAcquire(k) ==
    /\ tasks[k].pc = "rcv_acquire"
    /\ CanAcquire(tasks[k].trace)
    /\ Acquire(tasks[k].trace)
    /\ tasks' = [tasks EXCEPT ![k].pc = "rcv_load"]
    /\ UNCHANGED <<logs, states, sessions, directLeft, now,
                 memLogs, memStates, lastRecovery>>

\* a recover whose failures are raised past the finally clause: the lock is
\* released on success only
RcvLoadStateKeepLock(k) ==
    /\ tasks[k].pc = "rcv_load"
    /\ LET st == LoadState(tasks[k].trace)
       IN  IF st.present
           THEN /\ tasks' = [tasks EXCEPT ![k].st = st, ![k].pc = "rcv_list"]
                /\ UNCHANGED lastRecovery
           ELSE /\ tasks' = [tasks EXCEPT ![k] =
                         DoneTask(tasks[k], "STATE_RECOVERY_FAILED")]
                /\ lastRecovery' = LastRecovery(tasks[k].trace,
                                        "STATE_RECOVERY_FAILED", NoRecovery)
    /\ UNCHANGED <<logs, states, sessions, locked, directLeft, now,
                 memLogs, memStates>>

\* lines 306-308
RcvLoadState(k) ==
    /\ tasks[k].pc = "rcv_load"
    /\ LET st == LoadState(tasks[k].trace)
       IN  IF st.present
           THEN /\ tasks' = [tasks EXCEPT ![k].st = st, ![k].pc = "rcv_list"]
                /\ UNCHANGED <<locked, lastRecovery>>
           ELSE /\ tasks' = [tasks EXCEPT ![k] =
                         DoneTask(tasks[k], "STATE_RECOVERY_FAILED")]
                /\ lastRecovery' = LastRecovery(tasks[k].trace,
                                        "STATE_RECOVERY_FAILED", NoRecovery)
                /\ Release(tasks[k].trace)
    /\ UNCHANGED <<logs, states, sessions, directLeft, now,
                 memLogs, memStates>>

\* a validation of the links alone, the first entry's predecessor unchecked
ChainValidLinksOnly(entries) ==
    \A i \in 2..Len(entries) :
        entries[i].prev_entry_digest = entries[i - 1].entry_digest

\* lines 315-321: the hash chain of the entries read
ChainValid(entries) ==
    \A i \in 1..Len(entries) :
        IF i = 1 THEN entries[i].prev_entry_digest = ZERO_DIGEST
        ELSE entries[i].prev_entry_digest = entries[i - 1].entry_digest

\* lines 324-328: the state is EXECUTING, some entry is a tool_call and none
\* is a tool_effect
ReDispatched(st, entries) ==
    /\ st.current_state = EXECUTING
    /\ \E i \in 1..Len(entries) : entries[i].artifact_type = TOOL_CALL
    /\ \A i \in 1..Len(entries) : entries[i].artifact_type # TOOL_EFFECT

\* a recover that resumes the trace by itself: it appends the entry it found
\* last once more
RcvListEntriesResume(k) ==
    /\ tasks[k].pc = "rcv_list"
    /\ LET task == tasks[k]
           entries == ListLogEntries(task.trace, 0)
       IN  /\ tasks' = [tasks EXCEPT ![k] = DoneTask(task, "OK")]
           /\ logs' = [logs EXCEPT ![task.trace] = logs[task.trace] \o entries]
           /\ lastRecovery' = LastRecovery(task.trace, "OK", NoRecovery)
    /\ Release(tasks[k].trace)
    /\ UNCHANGED <<states, sessions, directLeft, now, memLogs, memStates>>

\* lines 310-344
RcvListEntries(k) ==
    /\ tasks[k].pc = "rcv_list"
    /\ LET task == tasks[k]
           entries == ListLogEntries(task.trace, 0)
           code == IF ~RowsParse(task.trace, 0) THEN "VALIDATION_ERROR"
                   ELSE IF entries = <<>> THEN "STATE_RECOVERY_FAILED"
                   ELSE IF ~ChainValid(entries) THEN "STATE_CHECKSUM_MISMATCH"
                   ELSE "OK"
           result == IF code # "OK" THEN NoRecovery
                     ELSE RecoveryResult(task.st.current_state,
                                         Last(entries).sequence_number,
                                         ReDispatched(task.st, entries))
       IN  /\ tasks' = [tasks EXCEPT ![k] =
                   [DoneTask(task, code) EXCEPT !.recovery = result]]
           /\ lastRecovery' = IF task.st = LoadState(task.trace)
                              THEN LastRecovery(task.trace, code, result)
                              ELSE NoLastRecovery
    /\ Release(tasks[k].trace)
    /\ UNCHANGED <<logs, states, sessions, directLeft, now,
                 memLogs, memStates>>

(* ------------------------------------------------ authorize_warm_path *)
\* the session ids a caller can present: those stored and those not
SessionIds == {Id("session", tok.id, 1) : tok \in Tokens}
Principals == {tok.iss : tok \in Tokens}

\* whether the args of a call satisfy the arg_constraints of a capability
WarmArgs == {"conforming", "violating"}

\* get_session: the row of the session id as a dict, or None
NoSession == SessionRecord(NoId, NoToken, 0)
GetSession(table, sid) ==
    IF \E s \in table : s.session_id = sid
    THEN CHOOSE s \in table : s.session_id = sid
    ELSE NoSession

\* touch_session: UPDATE sessions SET last_seen_at = ? WHERE session_id = ?
TouchSession(table, sid, ts) ==
    { IF s.session_id = sid THEN [s EXCEPT !.last_seen_at = ts] ELSE s :
        s \in table }

\* the checks of a warm path that skips the principal
WarmPathCodeAnyPrincipal(session, now_dt, principal_id, tool_server, tool_name) ==
    IF session = NoSession THEN "TGA_SESSION_NOT_FOUND"
    ELSE IF now_dt > session.expires_at THEN "TGA_SESSION_EXPIRED"
    ELSE IF session.tool_server # tool_server THEN "TGA_CONSTRAINT_MISMATCH"
    ELSE IF session.tool_name # tool_name THEN "TGA_CONSTRAINT_MISMATCH"
    ELSE "OK"

\* lines 215-236: the checks of authorize_warm_path in their order, and the
\* code of the TgaRuntimeError the first failing one raises.  The args are
\* not read (the TODO of line 238)
WarmPathCode(session, now_dt, principal_id, tool_server, tool_name) ==
    IF session = NoSession THEN "TGA_SESSION_NOT_FOUND"
    ELSE IF now_dt > session.expires_at THEN "TGA_SESSION_EXPIRED"
    ELSE IF session.principal_id # principal_id THEN "TGA_PRINCIPAL_MISMATCH"
    ELSE IF session.tool_server # tool_server THEN "TGA_CONSTRAINT_MISMATCH"
    ELSE IF session.tool_name # tool_name THEN "TGA_CONSTRAINT_MISMATCH"
    ELSE "OK"

\* a warm path that touches the session before it checks the call
AuthorizeWarmPathTouchFirst(k, sid, principal_id, tool_server, tool_name, args) ==
    /\ tasks[k].pc = "idle"
    /\ LET call == [IdleTask EXCEPT !.op = "warm", !.sid = sid,
                                    !.principal = principal_id,
                                    !.server = tool_server,
                                    !.name = tool_name, !.args = args,
                                    !.now = now]
           code == WarmPathCode(GetSession(sessions, sid), now, principal_id,
                                tool_server, tool_name)
       IN  tasks' = [tasks EXCEPT ![k] =
               IF code = "OK" THEN [call EXCEPT !.pc = "warm_touch"]
               ELSE DoneTask(call, code)]
    /\ sessions' = TouchSession(sessions, sid, now)
    /\ UNCHANGED <<logs, states, locked, directLeft, now,
                 memLogs, memStates, lastRecovery>>

\* lines 215-236: get_session, the reading of the clock, and the checks; a
\* call that passes them goes on to touch_session
AuthorizeWarmPath(k, sid, principal_id, tool_server, tool_name, args) ==
    /\ tasks[k].pc = "idle"
    /\ LET call == [IdleTask EXCEPT !.op = "warm", !.sid = sid,
                                    !.principal = principal_id,
                                    !.server = tool_server,
                                    !.name = tool_name, !.args = args,
                                    !.now = now]
           code == WarmPathCode(GetSession(sessions, sid), now, principal_id,
                                tool_server, tool_name)
       IN  tasks' = [tasks EXCEPT ![k] =
               IF code = "OK" THEN [call EXCEPT !.pc = "warm_touch"]
               ELSE DoneTask(call, code)]
    /\ UNCHANGED <<logs, states, sessions, locked, directLeft, now,
                 memLogs, memStates, lastRecovery>>

\* a touch_session that takes the lock of a trace
WarmTouchLocking(k) ==
    /\ tasks[k].pc = "warm_touch"
    /\ sessions' = TouchSession(sessions, tasks[k].sid, tasks[k].now)
    /\ tasks' = [tasks EXCEPT ![k] = DoneTask(tasks[k], "OK")]
    /\ locked' = [locked EXCEPT !["t1"] = TRUE]
    /\ UNCHANGED <<logs, states, directLeft, now,
                 memLogs, memStates, lastRecovery>>

\* lines 240-246: touch_session with the clock reading of line 220 (an UPDATE
\* and its commit), and the return of {"authorized": True}
WarmTouch(k) ==
    /\ tasks[k].pc = "warm_touch"
    /\ sessions' = TouchSession(sessions, tasks[k].sid, tasks[k].now)
    /\ tasks' = [tasks EXCEPT ![k] = DoneTask(tasks[k], "OK")]
    /\ UNCHANGED <<logs, states, locked, directLeft, now,
                 memLogs, memStates, lastRecovery>>

(* ------------------------------------------- delete_expired_sessions *)
\* the sub-second part of a clock reading: none, or some
Fractions == {0, 1}

\* an ISO 8601 text of a UTC time, by its whole seconds (of fixed width) and
\* the characters after them
IsoText(sec, tail) == [sec |-> sec, tail |-> tail]

\* datetime.fromtimestamp(cap.exp, timezone.utc).isoformat()
\*     .replace('+00:00', 'Z'): the expires_at column
ExpiresAtText(exp) == IsoText(exp, "Z")

\* datetime.now(timezone.utc).isoformat(): the microseconds are written when
\* they are not zero
NowText(sec, frac) == IsoText(sec, IF frac = 0 THEN "+00:00" ELSE ".f+00:00")

\* the first character after the seconds, in the order of its code:
\* '+' is 43, '.' is 46, 'Z' is 90
TailRank(tail) ==
    IF tail = "+00:00" THEN 1 ELSE IF tail = ".f+00:00" THEN 2 ELSE 3

\* the < of SQLite on TEXT values: byte by byte
TextLess(a, b) ==
    \/ a.sec < b.sec
    \/ a.sec = b.sec /\ TailRank(a.tail) < TailRank(b.tail)

\* DELETE FROM sessions WHERE expires_at < ?: the rows that remain
DeleteExpired(table, sec, frac) ==
    { s \in table :
        ~TextLess(ExpiresAtText(s.expires_at), NowText(sec, frac)) }

\* delete_expired_sessions(now) as init_runtime calls it, with the clock
\* reading of mcp_server.py line 24: the DELETE, its commit, and the rowcount
DeleteExpiredSessions(k, frac) ==
    /\ tasks[k].pc = "idle"
    /\ sessions' = DeleteExpired(sessions, now, frac)
    /\ tasks' = [tasks EXCEPT ![k] =
           [DoneTask([IdleTask EXCEPT !.op = "gc"], "OK") EXCEPT
               !.count = Cardinality(sessions)
                           - Cardinality(DeleteExpired(sessions, now, frac))]]
    /\ UNCHANGED <<logs, states, locked, directLeft, now,
                 memLogs, memStates, lastRecovery>>

\* time passes, up to the expiry of the capabilities that live longest
TickLate ==
    /\ now < Far
    /\ now' = now + 1
    /\ UNCHANGED <<logs, states, sessions, locked, tasks, directLeft,
                 memLogs, memStates, lastRecovery>>

(* ------------------------------------- append_log_entry called directly *)
\* the artifact_type a direct caller gives an entry, by its to_state
DirectArtifactType(to) ==
    IF to = PENDING THEN ACTION_REQUEST
    ELSE IF to \in {AUTHORIZED, DENIED} THEN SUPERVISOR_DECISION
    ELSE IF to = EXECUTING THEN TOOL_CALL
    ELSE TOOL_EFFECT

\* the (from_state, to_state) pairs a direct caller tries
DirectTransitions ==
    { <<PENDING, PENDING>>, <<PENDING, AUTHORIZED>>,
      <<AUTHORIZED, COMPLETED>> }

\* the entry a direct caller builds: at the next sequence number or one
\* further, on the last digest or on ZERO_DIGEST, with its digest computed
\* or left at the placeholder, with a UUIDv7 artifact_id or some other string
DirectEntry(t, gap, onLast, tr, digestOk, v7) ==
    LET log == logs[t]
        pre == EntryFields(t, "p1", ExpectedSeq(log) + gap,
                   IF onLast /\ log # <<>> THEN Last(log).entry_digest
                   ELSE ZERO_DIGEST,
                   tr[1], tr[2], DirectArtifactType(tr[2]),
                   ArtifactId(Id("direct", "none", 0), v7),
                   ComputeDigest(Payload("direct", "none", "none", "none", NoId, NoId)),
                   NoId, NoId, NoId)
    IN  Entry(pre, IF digestOk THEN EntryDigest(pre) ELSE ZERO_DIGEST)

\* what direct callers try: each of these transitions in a well-formed
\* entry, and an entry with one fault (a gap, the wrong predecessor, the wrong digest, an
\* artifact_id that is no UUIDv7)
DirectInputs ==
    { <<0, TRUE, tr, TRUE, TRUE>> : tr \in DirectTransitions } \cup
    { <<1, TRUE, <<PENDING, AUTHORIZED>>, TRUE, TRUE>>,
      <<0, FALSE, <<PENDING, AUTHORIZED>>, TRUE, TRUE>>,
      <<0, TRUE, <<PENDING, AUTHORIZED>>, FALSE, TRUE>>,
      <<0, TRUE, <<PENDING, PENDING>>, TRUE, FALSE>> }

\* store.append_log_entry(entry), called without the trace lock
DirectAppend(t, in) ==
    /\ directLeft > 0
    /\ LET entry == DirectEntry(t, in[1], in[2], in[3], in[4], in[5])
           code == AppendCode(logs[t], states[t], entry)
       IN  /\ AppendLogEntry(entry)
           /\ directLeft' = IF code = "OK" THEN directLeft - 1 ELSE directLeft
    /\ UNCHANGED <<sessions, locked, tasks, now, memLogs, memStates>>
    /\ lastRecovery' = NoLastRecovery

(* --------------------------------------- rows rewritten in the database *)
\* a digest put into a row by hand: well-formed, and the digest of nothing
\* the store holds
TAMPERED_DIGEST ==
    ComputeDigest(Payload("tampered", "none", "none", "none", NoId, NoId))

\* what is done to a trace's rows behind the store's back: one field of one
\* row overwritten, by a well-formed value or by the empty string, or the
\* rows of the trace deleted
TamperKinds ==
    {"prev_entry_digest", "prev_entry_digest_empty", "entry_digest",
     "to_state", "artifact_digest", "delete_rows"}

\* the rows of a trace are as the store wrote them
Untouched(log) ==
    \A i \in 1..Len(log) :
        /\ EntryParses(log[i])
        /\ DigestOk(log[i])
        /\ log[i].prev_entry_digest =
               IF i = 1 THEN ZERO_DIGEST ELSE log[i - 1].entry_digest

\* UPDATE execution_logs SET data = ? WHERE trace_id = ? AND
\* sequence_number = ?, or a DELETE, on a connection of its own; the
\* execution_states row is left alone
Tamper(t, kind) ==
    /\ logs[t] # <<>>
    /\ Untouched(logs[t])
    /\ \E i \in 1..Len(logs[t]) :
        /\ kind = "delete_rows" => i = 1
        /\ logs' = [logs EXCEPT ![t] =
               IF kind = "prev_entry_digest"
               THEN [@ EXCEPT ![i].prev_entry_digest = TAMPERED_DIGEST]
               ELSE IF kind = "prev_entry_digest_empty"
               THEN [@ EXCEPT ![i].prev_entry_digest = EMPTY_DIGEST]
               ELSE IF kind = "entry_digest"
               THEN [@ EXCEPT ![i].entry_digest = TAMPERED_DIGEST]
               ELSE IF kind = "to_state"
               THEN [@ EXCEPT ![i].to_state = DENIED]
               ELSE IF kind = "artifact_digest"
               THEN [@ EXCEPT ![i].artifact_digest = TAMPERED_DIGEST]
               ELSE <<>>]
    /\ lastRecovery' = NoLastRecovery
    /\ UNCHANGED <<states, sessions, locked, tasks, directLeft, now,
                 memLogs, memStates>>

(* ------------------------------------------------- MemoryStateStore *)
\* ZERO_DIGEST of memory_state_store.py: "0" * 64
MEM_ZERO_DIGEST == [enc |-> "hex64", pre |-> <<>>]

\* expected_seq = len(entries) + 1
MemSequenceOk(log, entry) == entry.sequence_number = Len(log) + 1

MemChainOk(log, entry) ==
    IF log # <<>>
    THEN entry.prev_entry_digest = Last(log).entry_digest
    ELSE entry.prev_entry_digest = MEM_ZERO_DIGEST

\* the checks of MemoryStateStore.append_log_entry before entries.append
MemAppendCode(log, entry) ==
    IF ~MemSequenceOk(log, entry) THEN "SEQUENCE_GAP"
    ELSE IF ~MemChainOk(log, entry)
         THEN (IF log # <<>> THEN "HASH_CHAIN_BROKEN" ELSE "GENESIS_INVALID")
    ELSE IF ~TransitionOk(entry) THEN "INVALID_TRANSITION"
    ELSE IF ~DigestOk(entry) THEN "DIGEST_MISMATCH"
    ELSE "OK"

\* ExecutionState(..., plan_id=entry.artifact_id, state_digest="") is
\* validated when it is made
MemNewStateValid(entry) == entry.artifact_id.v7 /\ MatchesBase64Url(EMPTY_DIGEST)

\* _update_state: make the state, or update it in place; an invalid new
\* state raises before self._states is written
MemUpdateState(old, entry) ==
    IF old.present THEN UpdateState(old, entry)
    ELSE IF MemNewStateValid(entry) THEN UpdateState(old, entry)
    ELSE old

\* the entry a caller of the in-memory store builds (see DirectInputs)
MemEntry(t, gap, onLast, tr, digestOk, v7) ==
    LET log == memLogs[t]
        pre == EntryFields(t, "p1", Len(log) + 1 + gap,
                   IF ~onLast THEN ZERO_DIGEST
                   ELSE IF log # <<>> THEN Last(log).entry_digest
                   ELSE MEM_ZERO_DIGEST,
                   tr[1], tr[2], DirectArtifactType(tr[2]),
                   ArtifactId(Id("direct", "none", 0), v7),
                   ComputeDigest(Payload("direct", "none", "none", "none", NoId, NoId)),
                   NoId, NoId, NoId)
    IN  Entry(pre, IF digestOk THEN EntryDigest(pre) ELSE ZERO_DIGEST)

\* MemoryStateStore.append_log_entry: the checks, entries.append(entry), then
\* _update_state
MemAppend(t, in) ==
    /\ Len(memLogs[t]) < MaxMemLen
    /\ LET entry == MemEntry(t, in[1], in[2], in[3], in[4], in[5])
       IN  IF MemAppendCode(memLogs[t], entry) = "OK"
           THEN /\ memLogs' = [memLogs EXCEPT ![t] = Append(memLogs[t], entry)]
                /\ memStates' = [memStates EXCEPT ![t] =
                                     MemUpdateState(memStates[t], entry)]
           ELSE UNCHANGED <<memLogs, memStates>>
    /\ UNCHANGED <<logs, states, sessions, locked, tasks, directLeft, now,
                 lastRecovery>>

(* ------------------------------ TgaStateStore of domain/state_store.py *)
\* acquire_trace_lock of domain/state_store.py: a lock that is held raises
\* StateStoreError instead of suspending the caller.  `inTry` tells whether
\* the runtime operation awaits the call inside its try block, so that its
\* finally clause runs release_trace_lock
DomainCallAcquire(k, task, then, inTry) ==
    IF CanAcquire(task.trace)
    THEN /\ Acquire(task.trace)
         /\ tasks' = [tasks EXCEPT ![k] = [task EXCEPT !.pc = then]]
    ELSE /\ tasks' = [tasks EXCEPT ![k] =
                DoneTask(task, "STATE_LOCK_ACQUIRE_FAILED")]
         /\ IF inTry THEN Release(task.trace) ELSE UNCHANGED locked

\* record_tool_effect, line 256, on that store
DomainRecordBegin(k, t) ==
    /\ tasks[k].pc = "idle"
    /\ DomainCallAcquire(k, [IdleTask EXCEPT !.op = "record", !.trace = t],
                         "rec_load", FALSE)
    /\ UNCHANGED <<logs, states, sessions, directLeft, now,
                 memLogs, memStates>>
    /\ lastRecovery' = NoLastRecovery

\* recover, lines 302-305, on that store
DomainRecoverBegin(k, t) ==
    /\ tasks[k].pc = "idle"
    /\ DomainCallAcquire(k, [IdleTask EXCEPT !.op = "recover", !.trace = t],
                         "rcv_load", TRUE)
    /\ UNCHANGED <<logs, states, sessions, directLeft, now,
                 memLogs, memStates, lastRecovery>>

(* ------------------------------------------------------ the MCP tools *)
\* what a tool of mcp_server returns: the dict of a success, by its kind, or
\* {"error": {"code": ...}}; chain_valid is the field of governance_recover
Response(kind, code, chain_valid) ==
    [kind |-> kind, code |-> code, chain_valid |-> chain_valid]
ErrorResponse(code) == Response("error", code, FALSE)

\* a task cancelled in the runtime returns nothing: CancelledError is no
\* Exception and passes the except clauses of the tools
NoResponse == Response("none", "none", FALSE)

\* lines 37-98: governance_authorize around authorize_warm_path or
\* authorize_tool_call, whichever its arguments select
GovernanceAuthorize(task) ==
    IF task.res = "OK" THEN Response("tool_call", "none", FALSE)
    ELSE ErrorResponse("UNAUTHORIZED")

\* a governance_log that maps every refusal to LOGGING_FAILED
GovernanceLogFailedOnly(task) ==
    IF task.res = "OK" THEN Response("entry", "none", FALSE)
    ELSE ErrorResponse("LOGGING_FAILED")

\* lines 100-136: governance_log around record_tool_effect
GovernanceLog(task) ==
    IF task.res = "OK" THEN Response("entry", "none", FALSE)
    ELSE IF task.res = "NOT_IMPLEMENTED" THEN ErrorResponse("NOT_IMPLEMENTED")
    ELSE ErrorResponse("LOGGING_FAILED")

\* a governance_recover that reports every trace as valid
GovernanceRecoverAlwaysValid(task) == Response("recovery", "none", TRUE)

\* lines 138-164: governance_recover around recover
GovernanceRecover(task) ==
    IF task.res = "OK" THEN Response("recovery", "none", TRUE)
    ELSE ErrorResponse("RECOVERY_FAILED")

\* the response of the tool whose runtime operation the task has finished
GovernanceResponse(task) ==
    IF task.res = "CANCELLED" THEN NoResponse
    ELSE IF task.op \in {"authorize", "warm"} THEN GovernanceAuthorize(task)
    ELSE IF task.op \in {"record", "log"} THEN GovernanceLog(task)
    ELSE GovernanceRecover(task)

\* the artifact types governance_log does not record
OtherArtifactTypes == {ACTION_REQUEST, SUPERVISOR_DECISION, TOOL_CALL, "other"}

\* lines 116-121: governance_log with an artifact_type that is not
\* tool_effect returns without calling the runtime
GovernanceLogOther(k, t, artifact_type) ==
    /\ tasks[k].pc = "idle"
    /\ artifact_type # TOOL_EFFECT
    /\ tasks' = [tasks EXCEPT ![k] =
           DoneTask([IdleTask EXCEPT !.op = "log"], "NOT_IMPLEMENTED")]
    /\ UNCHANGED <<logs, states, sessions, locked, directLeft, now,
                 memLogs, memStates, lastRecovery>>

(* ------------------------------------------------------ the environment *)
\* the caller takes the result of a finished operation
Return(k) ==
    /\ tasks[k].pc = "done"
    /\ tasks' = [tasks EXCEPT ![k] = IdleTask]
    /\ UNCHANGED <<logs, states, sessions, locked, directLeft, now,
                 memLogs, memStates, lastRecovery>>

\* cancellation that reaches no finally clause
ReleasesOnCancelNever(pc) == pc \in {"rcv_acquire"}

\* the task of an operation is cancelled at the await it is suspended in:
\* CancelledError passes through the finally clause that encloses the await.
\* In authorize_tool_call and record_tool_effect acquire_trace_lock is
\* awaited before the try block, in recover inside it.
ReleasesOnCancel(pc) == pc \in LockedPcs \cup {"rcv_acquire"}

Cancel(k) ==
    /\ tasks[k].pc \notin {"idle", "done"}
    /\ tasks' = [tasks EXCEPT ![k] = DoneTask(tasks[k], "CANCELLED")]
    /\ IF ReleasesOnCancel(tasks[k].pc)
       THEN Release(tasks[k].trace)
       ELSE UNCHANGED locked
    /\ UNCHANGED <<logs, states, sessions, directLeft, now,
                 memLogs, memStates, lastRecovery>>

\* the process stops and starts again: the coroutines and the in-process
\* locks are gone, the tables are as last committed
Crash ==
    /\ \E k \in Tasks : tasks[k].pc \notin {"idle", "done"}
    /\ tasks' = [k \in Tasks |-> IdleTask]
    /\ locked' = [t \in Traces |-> FALSE]
    /\ UNCHANGED <<logs, states, sessions, directLeft, now,
                 memLogs, memStates, lastRecovery>>

\* time passes
Tick ==
    /\ now < MaxTime
    /\ now' = now + 1
    /\ UNCHANGED <<logs, states, sessions, locked, tasks, directLeft,
                 memLogs, memStates, lastRecovery>>

\* one caller at a time: the operations run one after the other, on every
\* input of the model
Callers == {"A"}

Next ==
    \/ \E k \in Callers, tok \in Tokens, server \in ToolServers,
          name \in ToolNames, lookup \in ArgConstraintsLookup :
            AuthorizeBegin(k, tok, server, name, lookup)
    \/ \E k \in Callers : AuthLoadState(k)
    \/ \E k \in Callers : AuthAppendGenesis(k)
    \/ \E k \in Callers : AuthAppendDecision(k)
    \/ \E k \in Callers : AuthReloadState(k)
    \/ \E k \in Callers : AuthAppendToolCall(k)
    \/ \E k \in Callers, t \in Traces : RecordBegin(k, t)
    \/ \E k \in Callers, effect \in Effects : RecLoadState(k, effect)
    \/ \E k \in Callers : RecListEntries(k)
    \/ \E k \in Callers : RecAppend(k)
    \/ \E k \in Callers, t \in Traces : RecoverBegin(k, t)
    \/ \E k \in Callers : RcvLoadState(k)
    \/ \E k \in Callers : RcvListEntries(k)
    \/ \E t \in Traces, in \in DirectInputs : DirectAppend(t, in)
    \/ \E k \in Callers : Return(k)
    \/ \E k \in Callers : Cancel(k)
    \/ Crash
    \/ Tick

Spec == Init /\ [][Next]_vars

\* concurrent callers: the tasks of the event loop interleave at their awaits,
\* on one trace, with the capabilities that verify and a successful effect
ConcTrace == "t1"
ConcTokens == {tok \in Tokens : tok.id \in {"c1", "c2"}}
ConcEffect == Effect(TRUE, TRUE, "SUCCESS", TRUE)

\* the effects the concurrent callers report: a success and a failure
ConcEffects == {ConcEffect, Effect(TRUE, TRUE, "ERROR", TRUE)}

NextConc ==
    \/ \E k \in Tasks, tok \in ConcTokens :
            AuthorizeBegin(k, tok, tok.tool_server, tok.tool_name, "OK")
    \/ \E k \in Tasks : AuthAcquire(k)
    \/ \E k \in Tasks : AuthLoadState(k)
    \/ \E k \in Tasks : AuthAppendGenesis(k)
    \/ \E k \in Tasks : AuthAppendDecision(k)
    \/ \E k \in Tasks : AuthReloadState(k)
    \/ \E k \in Tasks : AuthAppendToolCall(k)
    \/ \E k \in Tasks : RecordBegin(k, ConcTrace)
    \/ \E k \in Tasks : RecAcquire(k)
    \/ \E k \in Tasks, effect \in ConcEffects : RecLoadState(k, effect)
    \/ \E k \in Tasks : RecListEntries(k)
    \/ \E k \in Tasks : RecAppend(k)
    \/ \E k \in Tasks : RecoverBegin(k, ConcTrace)
    \/ \E k \in Tasks : RcvAcquire(k)
    \/ \E k \in Tasks : RcvLoadState(k)
    \/ \E k \in Tasks : RcvListEntries(k)
    \/ \E k \in Tasks : Return(k)
    \/ \E k \in Tasks : Cancel(k)

SpecConc == Init /\ [][NextConc]_vars

\* one caller on one trace, and rows of the trace rewritten in the database
\* between the steps
NextTamper ==
    \/ \E k \in Callers, tok \in ConcTokens :
            AuthorizeBegin(k, tok, tok.tool_server, tok.tool_name, "OK")
    \/ \E k \in Callers : AuthLoadState(k)
    \/ \E k \in Callers : AuthAppendGenesis(k)
    \/ \E k \in Callers : AuthAppendDecision(k)
    \/ \E k \in Callers : AuthReloadState(k)
    \/ \E k \in Callers : AuthAppendToolCall(k)
    \/ \E k \in Callers : RecordBegin(k, ConcTrace)
    \/ \E k \in Callers : RecLoadState(k, ConcEffect)
    \/ \E k \in Callers : RecListEntries(k)
    \/ \E k \in Callers : RecAppend(k)
    \/ \E k \in Callers, t \in Traces : RecoverBegin(k, t)
    \/ \E k \in Callers : RcvLoadState(k)
    \/ \E k \in Callers : RcvListEntries(k)
    \/ \E kind \in TamperKinds : Tamper(ConcTrace, kind)
    \/ \E k \in Callers, artifact_type \in OtherArtifactTypes :
            GovernanceLogOther(k, ConcTrace, artifact_type)
    \/ \E k \in Callers : Return(k)

SpecTamper == Init /\ [][NextTamper]_vars

\* one caller that authorizes on the cold path and on the warm path, while
\* time passes
NextWarm ==
    \/ \E k \in Callers, tok \in ConcTokens :
            AuthorizeBegin(k, tok, tok.tool_server, tok.tool_name, "OK")
    \/ \E k \in Callers : AuthLoadState(k)
    \/ \E k \in Callers : AuthAppendGenesis(k)
    \/ \E k \in Callers : AuthAppendDecision(k)
    \/ \E k \in Callers : AuthReloadState(k)
    \/ \E k \in Callers : AuthAppendToolCall(k)
    \/ \E k \in Callers, sid \in SessionIds, principal_id \in Principals,
          tool_server \in ToolServers, tool_name \in ToolNames,
          args \in WarmArgs :
            AuthorizeWarmPath(k, sid, principal_id, tool_server, tool_name,
                              args)
    \/ \E k \in Callers : WarmTouch(k)
    \/ \E k \in Callers : Return(k)
    \/ Tick

SpecWarm == Init /\ [][NextWarm]_vars

\* validate_tool_call called directly, on capabilities that name every kind of
\* tool, for every tool the caller can name
ValidateNames ==
    { CREATE_PR, GET_PR, <<"update-", "pr">>, <<"delete-", "pr">>,
      <<"write-", "pr">>, <<"apply-", "pr">>, <<"Create-", "pr">>,
      <<"recreate-", "pr">> }

ValidateCaps ==
    { [Token("v", "ok", GATEWAY, Far, 0, "p1", "n", "t1", name, ro)
          EXCEPT !.arg_constraints = ac] :
        name \in ValidateNames, ro \in BOOLEAN, ac \in BOOLEAN }

\* lines 91-114: the result of validate_tool_call(cap, tool_server, tool_name,
\* args), "OK" for a return without error
ValidateToolCallStep(k, cap, tool_server, tool_name, lookup) ==
    /\ tasks[k].pc = "idle"
    /\ LET v == ValidateToolCall(cap, tool_server, tool_name)
       IN  tasks' = [tasks EXCEPT ![k] =
               [IdleTask EXCEPT !.pc = "done", !.op = "validate",
                                !.tok = cap, !.server = tool_server,
                                !.name = tool_name,
                                !.res = IF v # "OK" THEN v ELSE lookup]]
    /\ UNCHANGED <<logs, states, sessions, locked, directLeft, now,
                 memLogs, memStates, lastRecovery>>

NextValidate ==
    \/ \E k \in Callers, cap \in ValidateCaps, tool_server \in ToolServers,
          tool_name \in ValidateNames, lookup \in ArgConstraintsLookup :
            ValidateToolCallStep(k, cap, tool_server, tool_name, lookup)
    \/ \E k \in Callers : Return(k)

SpecValidate == Init /\ [][NextValidate]_vars

\* one caller that authorizes on the cold path, and the sessions deleted at
\* startup, until the capabilities have expired
NextGc ==
    \/ \E k \in Callers, tok \in ConcTokens :
            AuthorizeBegin(k, tok, tok.tool_server, tok.tool_name, "OK")
    \/ \E k \in Callers : AuthLoadState(k)
    \/ \E k \in Callers : AuthAppendGenesis(k)
    \/ \E k \in Callers : AuthAppendDecision(k)
    \/ \E k \in Callers : AuthReloadState(k)
    \/ \E k \in Callers : AuthAppendToolCall(k)
    \/ \E k \in Callers, frac \in Fractions : DeleteExpiredSessions(k, frac)
    \/ \E k \in Callers : Return(k)
    \/ TickLate

SpecGc == Init /\ [][NextGc]_vars

\* concurrent callers of a runtime built on the TgaStateStore of
\* domain/state_store.py, which holds no trace: authorize_tool_call cannot
\* store its session there, so no operation gets past load_state
NextDomainStore ==
    \/ \E k \in Tasks, t \in Traces : DomainRecordBegin(k, t)
    \/ \E k \in Tasks, effect \in Effects : RecLoadState(k, effect)
    \/ \E k \in Tasks, t \in Traces : DomainRecoverBegin(k, t)
    \/ \E k \in Tasks : RcvLoadState(k)
    \/ \E k \in Tasks : Return(k)

SpecDomainStore == Init /\ [][NextDomainStore]_vars

\* the in-memory store, called directly
NextMem == \E t \in Traces, in \in DirectInputs : MemAppend(t, in)

SpecMem == Init /\ [][NextMem]_vars

(* ------------------------------------------------------------ properties *)
IsPrefix(a, b) == Len(a) <= Len(b) /\ SubSeq(b, 1, Len(a)) = a

Finished(k, op, code) ==
    tasks[k].pc = "done" /\ tasks[k].op = op /\ tasks[k].res = code

\* no operation is in flight
Quiet == \A k \in Tasks : tasks[k].pc \in {"idle", "done"}

\* C1: in every state the log of every trace is a contiguous hash chain: the
\* i-th entry has sequence_number i, the first one has the zero digest as its
\* prev_entry_digest and every later one its predecessor's entry_digest
C1_HashChain ==
    \A t \in Traces : \A i \in 1..Len(logs[t]) :
        /\ logs[t][i].sequence_number = i
        /\ logs[t][i].prev_entry_digest =
               IF i = 1 THEN ZERO_DIGEST ELSE logs[t][i - 1].entry_digest

\* a log the runtime and a direct caller have both written to
C1_Witness ==
    \E t \in Traces : Len(logs[t]) >= 4 /\ directLeft < MaxDirect

\* a store has a derived state for a trace iff the trace's log is not empty,
\* and the state is the projection of the log's last entry
IsProjection(log, st) ==
    /\ st.present <=> log # <<>>
    /\ log # <<>> =>
        /\ st.current_state = Last(log).to_state
        /\ st.last_sequence_number = Last(log).sequence_number
        /\ st.last_sequence_number = Len(log)
        /\ st.last_entry_digest = Last(log).entry_digest

\* the projection in the SQLite store (an invariant of Spec and of SpecConc)
SqliteStateIsProjection ==
    \A t \in Traces : IsProjection(logs[t], states[t])

\* C2: in every state, in each store, a trace has a derived state iff its
\* log is not empty, and that state is the projection of the log: here for
\* the in-memory store
C2_StateIsProjection ==
    \A t \in Traces : IsProjection(memLogs[t], memStates[t])

\* C3: every entry of every log has an allowed transition, or is
\* PENDING -> PENDING with sequence_number 1
C3_TransitionsAllowed ==
    \A t \in Traces : \A i \in 1..Len(logs[t]) :
        LET e == logs[t][i]
        IN  \/ <<e.from_state, e.to_state>> \in ALLOWED_TRANSITIONS
            \/ /\ e.from_state = PENDING
               /\ e.to_state = PENDING
               /\ e.sequence_number = 1

\* C4: the log of a trace is append-only: every step leaves the log of every
\* trace a prefix of what it is after the step
C4_AppendOnly ==
    [][\A t \in Traces : IsPrefix(logs[t], logs'[t])]_vars

\* a log that has grown up to a tool_effect entry
C4_Witness ==
    \E t \in Traces :
        /\ Len(logs[t]) >= 4
        /\ Last(logs[t]).artifact_type = TOOL_EFFECT

\* pcs at which an operation has read the state of its trace and has a store
\* call still to make
AfterLoadPcs == {"auth_genesis", "auth_decision", "auth_reload",
                 "auth_tool_call", "rec_list", "rec_append", "rcv_list"}

\* C5: for every trace at most one operation is between its load_state and
\* its last store call
C5_Serialized ==
    \A t \in Traces :
        Cardinality({k \in Tasks : /\ tasks[k].pc \in AfterLoadPcs
                                   /\ tasks[k].trace = t}) <= 1

\* C6: with the runtime as the only writer and no operation in flight, no
\* log ends at seq 1 or at seq 2: the cold path leaves three entries or none
C6_AllOrNothing ==
    (directLeft = MaxDirect /\ Quiet) =>
        \A t \in Traces : Len(logs[t]) \notin {1, 2}

\* codes of a capability that does not verify or of a call outside its
\* constraints
RefusalCodes ==
    {"SIGNATURE_INVALID", "EXPIRED", "AUDIENCE_MISMATCH", "TOOL_UNAUTHORIZED",
     "READ_ONLY_VIOLATION"}

\* C7: the step in which authorize_tool_call fails with the code of a
\* capability that does not verify or of a violated constraint leaves every
\* log, every derived state and the sessions as they were
C7_RefusalWritesNothing ==
    [][\A k \in Tasks :
          (/\ tasks[k].pc = "idle"
           /\ tasks'[k].pc = "done"
           /\ tasks'[k].op = "authorize"
           /\ tasks'[k].res \in RefusalCodes)
          => UNCHANGED <<logs, states, sessions>>]_vars

\* a refused call on a store that holds entries and a session
C7_Witness ==
    \E k \in Tasks :
        /\ Finished(k, "authorize", "READ_ONLY_VIOLATION")
        /\ sessions # {}
        /\ logs["t1"] # <<>>

\* C8: with the runtime as the only writer, an authorize_tool_call that has
\* failed with INVALID_STATE has left no session record of its own
C8_InvalidStateNoSession ==
    \A k \in Tasks :
        (Finished(k, "authorize", "INVALID_STATE") /\ directLeft = MaxDirect) =>
            \A s \in sessions : s.session_id # tasks[k].sid

\* C9: the step in which authorize_tool_call succeeds appends one tool_call
\* entry AUTHORIZED -> EXECUTING at last_sequence_number + 1 to a log that
\* ended in AUTHORIZED, and the derived state is EXECUTING; when the call has
\* written the genesis pair itself and the runtime is the only writer, the
\* log is then exactly action_request, supervisor_decision, tool_call
C9_AuthorizeSuccess ==
    [][\A k \in Tasks :
          (/\ tasks[k].pc = "auth_tool_call"
           /\ tasks'[k].pc = "done"
           /\ tasks'[k].res = "OK")
          => LET t == tasks[k].trace
                 old == logs[t]
                 new == logs'[t]
                 e == new[Len(new)]
             IN  /\ Len(new) = Len(old) + 1
                 /\ IsPrefix(old, new)
                 /\ Last(old).to_state = AUTHORIZED
                 /\ e.from_state = AUTHORIZED
                 /\ e.to_state = EXECUTING
                 /\ e.artifact_type = TOOL_CALL
                 /\ e.sequence_number = tasks[k].st.last_sequence_number + 1
                 /\ e.sequence_number = Last(old).sequence_number + 1
                 /\ states'[t].current_state = EXECUTING
                 /\ (tasks[k].prev # ZERO_DIGEST /\ directLeft = MaxDirect) =>
                       /\ Len(new) = 3
                       /\ e.sequence_number = 3
                       /\ new[1].sequence_number = 1
                       /\ new[1].from_state = PENDING
                       /\ new[1].to_state = PENDING
                       /\ new[1].artifact_type = ACTION_REQUEST
                       /\ new[1].prev_entry_digest = ZERO_DIGEST
                       /\ new[2].sequence_number = 2
                       /\ new[2].from_state = PENDING
                       /\ new[2].to_state = AUTHORIZED
                       /\ new[2].artifact_type = SUPERVISOR_DECISION]_vars

\* a cold-path call has succeeded on a trace only the runtime has written
C9_Witness ==
    \E k \in Tasks :
        /\ Finished(k, "authorize", "OK")
        /\ Len(logs["t1"]) = 3
        /\ directLeft = MaxDirect

\* C10: with the runtime as the only writer, the step in which
\* record_tool_effect succeeds appends one tool_effect entry at
\* last_sequence_number + 1 on the digest of the tool_call entry, and its
\* to_state is COMPLETED iff the effect has outcome.status = "SUCCESS", FAILED
\* otherwise
C10_EffectOutcome ==
    [][\A k \in Tasks :
          (/\ tasks[k].pc = "rec_append"
           /\ tasks'[k].pc = "done"
           /\ tasks'[k].res = "OK"
           /\ directLeft = MaxDirect)
          => LET t == tasks[k].trace
                 old == logs[t]
                 new == logs'[t]
                 e == new[Len(new)]
                 effect == tasks[k].effect
                 success == /\ effect.has_outcome
                            /\ effect.has_status
                            /\ effect.status = "SUCCESS"
             IN  /\ Len(new) = Len(old) + 1
                 /\ e.artifact_type = TOOL_EFFECT
                 /\ Last(old).artifact_type = TOOL_CALL
                 /\ e.sequence_number = tasks[k].st.last_sequence_number + 1
                 /\ e.sequence_number = Last(old).sequence_number + 1
                 /\ e.prev_entry_digest = Last(old).entry_digest
                 /\ e.to_state = IF success THEN COMPLETED ELSE FAILED]_vars

\* C11: record_tool_effect fails with InvalidState exactly when, at its
\* load_state, the trace has no state or a state other than EXECUTING, and
\* the failing call leaves every log and every derived state as it was
C11_RecordInvalidState ==
    [][\A k \in Tasks :
          (/\ tasks[k].pc = "rec_load"
           /\ tasks'[k].pc \notin {"rec_load", "idle"}
           /\ tasks'[k].res # "CANCELLED")
          => LET st == states[tasks[k].trace]
                 refused == ~st.present \/ st.current_state # EXECUTING
                 failed == tasks'[k].pc = "done" /\ tasks'[k].res = "INVALID_STATE"
             IN  /\ refused <=> failed
                 /\ failed => UNCHANGED <<logs, states>>]_vars

\* an effect refused on a trace that is COMPLETED, or on one that a direct
\* append has left short of EXECUTING
C11_Witness ==
    /\ \E k \in Tasks : Finished(k, "record", "INVALID_STATE")
    /\ states["t1"].present /\ states["t1"].current_state = COMPLETED
    /\ states["t2"].present

\* a step of task k inside a call of recover
RecoverStep(k) ==
    /\ tasks'[k] # tasks[k]
    /\ \/ tasks[k].pc = "idle" /\ tasks'[k].op = "recover"
       \/ tasks[k].op = "recover" /\ tasks[k].pc # "done"

\* C12: no step of recover, whether the call succeeds or fails, changes a log,
\* a derived state or a session, and a call of recover that follows a call of
\* recover on the same trace, with no other operation in between, comes to the
\* same result
C12_RecoverPure ==
    [][\A k \in Tasks :
          /\ RecoverStep(k) => UNCHANGED <<logs, states, sessions>>
          /\ (/\ RecoverStep(k)
              /\ tasks'[k].pc = "done"
              /\ tasks'[k].res # "CANCELLED"
              /\ lastRecovery.trace = tasks[k].trace)
             => /\ tasks'[k].res = lastRecovery.res
                /\ tasks'[k].recovery = lastRecovery.recovery]_vars

\* a second recover in a row on a trace left in EXECUTING
C12_Witness ==
    \E k \in Tasks :
        /\ tasks[k].pc = "rcv_list"
        /\ lastRecovery.trace = tasks[k].trace
        /\ lastRecovery.res = "OK"
        /\ lastRecovery.recovery.re_dispatched

\* the log has a tool_call entry that no later tool_effect entry answers
UnmatchedToolCall(log) ==
    \E i \in 1..Len(log) :
        /\ log[i].artifact_type = TOOL_CALL
        /\ \A j \in (i + 1)..Len(log) : log[j].artifact_type # TOOL_EFFECT

\* C13: a successful recover returns the to_state and the sequence_number of
\* the last entry of the log, and re_dispatched = true exactly when the log
\* ends in EXECUTING with a tool_call entry that has no matching tool_effect
\* (stated for a call during which nothing else wrote to the trace)
C13_RecoverResult ==
    [][\A k \in Tasks :
          (/\ tasks[k].pc = "rcv_list"
           /\ tasks'[k].pc = "done"
           /\ tasks'[k].res = "OK"
           /\ tasks[k].st = states[tasks[k].trace])
          => LET log == logs[tasks[k].trace]
                 r == tasks'[k].recovery
             IN  /\ r.recovered_state = Last(log).to_state
                 /\ r.recovered_from_seq = Last(log).sequence_number
                 /\ r.re_dispatched <=>
                        (Last(log).to_state = EXECUTING /\ UnmatchedToolCall(log))]_vars

\* the stored log is not a hash chain: its first entry does not start from
\* the zero digest, or a later entry does not carry its predecessor's digest
ChainBroken(log) ==
    \E i \in 1..Len(log) :
        log[i].prev_entry_digest #
            (IF i = 1 THEN ZERO_DIGEST ELSE log[i - 1].entry_digest)

\* recover reads the log of its trace and comes to an end
RecoverReadsLog(k) ==
    /\ tasks[k].pc = "rcv_list"
    /\ tasks'[k].pc = "done"

\* C14 as written: recover on a stored log that is not a hash chain fails
\* with StateChecksumMismatch and returns no recovery result
C14_ChainBrokenChecksumMismatch ==
    [][\A k \in Tasks :
          (RecoverReadsLog(k) /\ ChainBroken(logs[tasks[k].trace]))
          => /\ tasks'[k].res = "STATE_CHECKSUM_MISMATCH"
             /\ tasks'[k].recovery = NoRecovery]_vars

\* C14: recover on a stored log that is not a hash chain returns no recovery
\* result: it fails with StateChecksumMismatch when every stored entry still
\* validates as an ExecutionLogEntry, and with the validation error of
\* list_log_entries when one does not
C14_ChainBrokenFails ==
    [][\A k \in Tasks :
          (RecoverReadsLog(k) /\ ChainBroken(logs[tasks[k].trace]))
          => /\ tasks'[k].recovery = NoRecovery
             /\ tasks'[k].res =
                    IF \A i \in 1..Len(logs[tasks[k].trace]) :
                           EntryParses(logs[tasks[k].trace][i])
                    THEN "STATE_CHECKSUM_MISMATCH"
                    ELSE "VALIDATION_ERROR"]_vars

\* a recover that has failed on a log of three entries whose second entry
\* was given another prev_entry_digest
C14_Witness ==
    /\ \E k \in Tasks : Finished(k, "recover", "STATE_CHECKSUM_MISMATCH")
    /\ Len(logs["t1"]) = 3
    /\ logs["t1"][2].prev_entry_digest = TAMPERED_DIGEST

\* C15: recover on a trace with a stored entry whose entry_digest is not the
\* digest of the rest of that entry fails and returns no recovery result
C15_EntryDigestVerified ==
    [][\A k \in Tasks :
          (/\ RecoverReadsLog(k)
           /\ \E i \in 1..Len(logs[tasks[k].trace]) :
                  logs[tasks[k].trace][i].entry_digest #
                      EntryDigest(logs[tasks[k].trace][i]))
          => /\ tasks'[k].res # "OK"
             /\ tasks'[k].recovery = NoRecovery]_vars

\* C16: recover on a trace that has no derived state, or that has a state
\* and an empty log, fails with StateRecoveryFailed, changes no log, state or
\* session, and leaves the lock of the trace free
C16_RecoveryFailed ==
    [][\A k \in Tasks :
          LET t == tasks[k].trace
              noState == tasks[k].pc = "rcv_load" /\ ~states[t].present
              noLog == tasks[k].pc = "rcv_list" /\ logs[t] = <<>>
          IN  ((noState \/ noLog)
               /\ tasks'[k].pc \notin {tasks[k].pc, "idle"}
               /\ tasks'[k].res # "CANCELLED")
              => /\ tasks'[k].pc = "done"
                 /\ tasks'[k].res = "STATE_RECOVERY_FAILED"
                 /\ tasks'[k].recovery = NoRecovery
                 /\ UNCHANGED <<logs, states, sessions>>
                 /\ ~locked'[t]]_vars

\* both cases have happened: the last recover failed on the trace whose rows
\* were deleted and whose state is still there
C16_Witness ==
    /\ \E k \in Tasks : Finished(k, "recover", "STATE_RECOVERY_FAILED")
    /\ lastRecovery.trace = "t1"
    /\ states["t1"].present
    /\ logs["t1"] = <<>>
    /\ ~locked["t1"]

\* the four faults of an entry offered to a trace with this log: its
\* sequence_number is not last + 1; its prev_entry_digest is not the last
\* entry_digest, or not the zero digest on an empty log; its transition is
\* neither allowed nor the genesis pair at sequence number 1; its
\* entry_digest is not the digest of the rest of it
EntryFaulty(log, e) ==
    \/ e.sequence_number # Len(log) + 1
    \/ e.prev_entry_digest #
           (IF log = <<>> THEN ZERO_DIGEST ELSE log[Len(log)].entry_digest)
    \/ /\ <<e.from_state, e.to_state>> \notin ALLOWED_TRANSITIONS
       /\ ~(e.from_state = PENDING /\ e.to_state = PENDING
            /\ e.sequence_number = 1)
    \/ e.entry_digest # EntryDigest(e)

\* C17: append_log_entry leaves the log and the state of the trace as they
\* were when the entry has one of the four faults, and appends the entry when
\* it has none
C17_AppendValidates ==
    [][\A t \in Traces, in \in DirectInputs :
          DirectAppend(t, in)
          => LET e == DirectEntry(t, in[1], in[2], in[3], in[4], in[5])
             IN  IF EntryFaulty(logs[t], e)
                 THEN UNCHANGED <<logs, states>>
                 ELSE logs'[t] = Append(logs[t], e)]_vars

\* C18: the lock of a trace is released on every way out of
\* authorize_tool_call, record_tool_effect and recover (a return, an error, a
\* cancellation): in a state where no operation is in progress every trace
\* lock is free
C18_LocksReleased == Quiet => \A t \in Traces : ~locked[t]

\* both tasks are through: one was cancelled between two appends of
\* authorize_tool_call, the other was refused by the state check
C18_Witness ==
    /\ Quiet
    /\ \E k \in Tasks : Finished(k, "authorize", "CANCELLED")
    /\ \E k \in Tasks : Finished(k, "authorize", "INVALID_STATE")
    /\ Len(logs["t1"]) \in {1, 2}

\* a session is stored for the (iss, nonce) of this capability
HasSession(tok) ==
    \E s \in sessions :
        s.principal_id = tok.iss /\ s.capability_jti = tok.nonce

\* C19: in every state no two session records share (principal_id,
\* capability_jti), and an authorize_tool_call that presents a capability
\* whose (iss, nonce) has a session ends at once, with no session added and
\* no entry appended
C19_SessionsUnique ==
    /\ [](\A r, s \in sessions :
              (r.principal_id = s.principal_id
               /\ r.capability_jti = s.capability_jti) => r = s)
    /\ [][\A k \in Tasks, tok \in Tokens, server \in ToolServers,
             name \in ToolNames, lookup \in ArgConstraintsLookup :
              (/\ tasks[k].pc = "idle"
               /\ tasks'[k].op = "authorize"
               /\ HasSession(tok)
               /\ AuthorizeBegin(k, tok, server, name, lookup))
              => /\ tasks'[k].pc = "done"
                 /\ tasks'[k].res # "OK"
                 /\ UNCHANGED <<sessions, logs, states>>]_vars

\* a capability that verifies, presented a second time, has been refused by
\* the unique index
C19_Witness ==
    /\ \E k \in Tasks : Finished(k, "authorize", "INTEGRITY_ERROR")
    /\ Cardinality(sessions) = 2

\* C20: in every state in which no operation is in progress, each session
\* record has a tool_call entry in some log that carries its session_id
C20_SessionHasToolCall ==
    (Quiet /\ directLeft = MaxDirect)
    => \A s \in sessions :
           \E t \in Traces : \E i \in 1..Len(logs[t]) :
               /\ logs[t][i].artifact_type = TOOL_CALL
               /\ logs[t][i].session_id = s.session_id

\* a step of the warm path of caller k: the call with its checks, or the touch
WarmCallStep(k) == tasks[k].pc = "idle" /\ tasks'[k].op = "warm"
WarmTouchStep(k) == tasks[k].pc = "warm_touch" /\ tasks'[k].pc = "done"
                    /\ tasks'[k].res = "OK"

\* C21: authorize_warm_path returns an authorization only if the session
\* exists, the principal_id supplied equals the session's, and tool_server and
\* tool_name equal the stored constraints; a call on a missing session fails
\* with TGA_SESSION_NOT_FOUND, and on a session that has not expired a call
\* with another principal fails with TGA_PRINCIPAL_MISMATCH and one with
\* another tool_server or tool_name with TGA_CONSTRAINT_MISMATCH
C21_WarmPathChecks ==
    [][\A k \in Callers, sid \in SessionIds, principal_id \in Principals,
          tool_server \in ToolServers, tool_name \in ToolNames,
          args \in WarmArgs :
        (WarmCallStep(k)
         /\ AuthorizeWarmPath(k, sid, principal_id, tool_server, tool_name, args))
        => LET session == GetSession(sessions, sid)
               passes == tasks'[k].pc = "warm_touch"
               fails(code) == tasks'[k].pc = "done" /\ tasks'[k].res = code
           IN  /\ passes => /\ session # NoSession
                            /\ session.principal_id = principal_id
                            /\ session.tool_server = tool_server
                            /\ session.tool_name = tool_name
               /\ tasks'[k].res # "OK"
               /\ session = NoSession => fails("TGA_SESSION_NOT_FOUND")
               /\ (session # NoSession /\ now < session.expires_at) =>
                    IF session.principal_id # principal_id
                    THEN fails("TGA_PRINCIPAL_MISMATCH")
                    ELSE IF session.tool_server # tool_server
                            \/ session.tool_name # tool_name
                    THEN fails("TGA_CONSTRAINT_MISMATCH")
                    ELSE passes]_vars
       /\ [][\A k \in Callers :
               (tasks'[k].op = "warm" /\ tasks'[k].pc = "done"
                /\ tasks'[k].res = "OK" /\ tasks[k].pc # "done")
               => WarmTouchStep(k) /\ WarmTouch(k)]_vars

\* a warm call has returned an authorization at a later clock reading, and
\* the next one on that session is refused for the tool it names
C21_Witness ==
    /\ tasks["A"].op = "warm" /\ tasks["A"].pc = "done"
    /\ tasks["A"].res = "TGA_CONSTRAINT_MISMATCH"
    /\ \E s \in sessions : s.session_id = tasks["A"].sid /\ s.last_seen_at > 0

\* C22: a warm-path call on a session whose expires_at is at or before the
\* clock reading fails with TGA_SESSION_EXPIRED, the reading equal to
\* expires_at included
C22_WarmPathExpired ==
    [][\A k \in Callers, sid \in SessionIds, principal_id \in Principals,
          tool_server \in ToolServers, tool_name \in ToolNames,
          args \in WarmArgs :
        (WarmCallStep(k)
         /\ GetSession(sessions, sid) # NoSession
         /\ GetSession(sessions, sid).expires_at <= now
         /\ AuthorizeWarmPath(k, sid, principal_id, tool_server, tool_name, args))
        => tasks'[k].pc = "done" /\ tasks'[k].res = "TGA_SESSION_EXPIRED"]_vars

\* C23: no step of the warm path writes to the log, to the derived state or
\* takes the lock of a trace
C23_WarmPathNoLog ==
    [][\A k \in Callers :
        (WarmCallStep(k) \/ tasks[k].pc = "warm_touch")
        => UNCHANGED <<logs, states, locked>>]_vars

\* a warm-path call has returned an authorization on a trace with a log
C23_Witness ==
    /\ tasks["A"].op = "warm" /\ tasks["A"].pc = "done" /\ tasks["A"].res = "OK"
    /\ Len(logs["t1"]) = 3

\* C24: a warm-path call that succeeds leaves the session's last_seen_at
\* strictly greater than it was before the call
C24_LastSeenAdvances ==
    [][\A k \in Callers :
        (WarmTouchStep(k) /\ WarmTouch(k))
        => GetSession(sessions', tasks[k].sid).last_seen_at
             > GetSession(sessions, tasks[k].sid).last_seen_at]_vars

\* C25: a warm-path call on a session whose constraints carry arg_constraints,
\* with args that do not satisfy them, does not succeed
C25_WarmPathArgs ==
    [][\A k \in Callers :
        (WarmTouchStep(k) /\ WarmTouch(k)
         /\ GetSession(sessions, tasks[k].sid).arg_constraints)
        => tasks[k].args # "violating"]_vars

\* C26: validate_tool_call rejects with TOOL_UNAUTHORIZED unless the requested
\* tool_server and tool_name both equal the capability's; otherwise with
\* READ_ONLY_VIOLATION if the capability is read_only and the name starts with
\* create-, update-, delete-, write- or apply- (lower case); otherwise it
\* accepts the call
C26_ValidateToolCall ==
    \A k \in Callers :
        (tasks[k].pc = "done" /\ tasks[k].op = "validate") =>
            LET cap == tasks[k].tok
                mutation == tasks[k].name[1] \in
                    {"create-", "update-", "delete-", "write-", "apply-"}
            IN  tasks[k].res =
                    IF cap.tool_server # tasks[k].server
                       \/ cap.tool_name # tasks[k].name
                    THEN "TOOL_UNAUTHORIZED"
                    ELSE IF cap.read_only /\ mutation
                    THEN "READ_ONLY_VIOLATION"
                    ELSE "OK"

\* C27: decode_and_verify of a capability that is signed correctly and names
\* the gateway as audience fails with EXPIRED when exp is at or before the
\* clock reading and with NOT_BEFORE when nbf is after it, codes of their own
\* that are neither SIGNATURE_INVALID nor CAPABILITY_INVALID
C27_ExpiredNotYetValid ==
    [][\A k \in Callers, tok \in Tokens, server \in ToolServers,
          name \in ToolNames, lookup \in ArgConstraintsLookup :
        (/\ tasks[k].pc = "idle"
         /\ tasks'[k].op = "authorize"
         /\ tok.sig = "ok" /\ tok.aud = GATEWAY
         /\ AuthorizeBegin(k, tok, server, name, lookup))
        => /\ (tok.exp <= now /\ tok.nbf <= now)
                => tasks'[k].pc = "done" /\ tasks'[k].res = "EXPIRED"
           /\ (tok.nbf > now /\ tok.exp > now)
                => tasks'[k].pc = "done" /\ tasks'[k].res = "NOT_BEFORE"]_vars

\* the digests an entry carries
EntryDigests(e) == {e.entry_digest, e.prev_entry_digest, e.artifact_digest}

\* C28: every entry_digest, prev_entry_digest and artifact_digest of the log,
\* the capability digest of the supervisor_decision entry included, is the
\* unpadded base64url form of a SHA-256 digest, 43 characters long
C28_DigestsBase64Url ==
    \A t \in Traces : \A i \in 1..Len(logs[t]) :
        \A d \in EntryDigests(logs[t][i]) : d.enc = "b64url43"

\* the codes of the integrity failures of the store and of recover
IntegrityCodes ==
    {"SEQUENCE_GAP", "HASH_CHAIN_BROKEN", "DIGEST_MISMATCH",
     "INVALID_TRANSITION", "GENESIS_INVALID", "STATE_CHECKSUM_MISMATCH"}

\* caller k's operation ends in this step
Ends(k) == tasks[k].pc # "done" /\ tasks'[k].pc = "done"

\* C29: when the runtime operation behind governance_authorize, governance_log
\* or governance_recover fails with an integrity code the response is an error
\* object; and governance_recover returns chain_valid = true only when recover
\* has read the rows of the trace and found each one chained to the one before
C29_TransportKeepsFailures ==
    [][\A k \in Callers :
        Ends(k) =>
            /\ tasks'[k].res \in IntegrityCodes
                 => GovernanceResponse(tasks'[k]).kind = "error"
            /\ GovernanceResponse(tasks'[k]).chain_valid
                 => /\ tasks[k].pc = "rcv_list"
                    /\ logs[tasks[k].trace] # <<>>
                    /\ ChainValid(logs[tasks[k].trace])]_vars

\* recover has failed on a broken chain and governance_recover has answered
\* with an error
C29_Witness ==
    /\ tasks["A"].pc = "done" /\ tasks["A"].op = "recover"
    /\ tasks["A"].res = "STATE_CHECKSUM_MISMATCH"
    /\ GovernanceResponse(tasks["A"]) = ErrorResponse("RECOVERY_FAILED")

\* C30: governance_log with an artifact_type other than tool_effect returns
\* NOT_IMPLEMENTED and changes nothing; with tool_effect it records through
\* record_tool_effect: a success has appended a tool_effect entry, and a
\* failure returns LOGGING_FAILED, no step of the call having changed the
\* store (a cancelled call returns nothing)
C30_GovernanceLog ==
    [][\A k \in Callers :
        /\ (tasks[k].pc = "idle" /\ tasks'[k].op = "log")
             => /\ GovernanceResponse(tasks'[k]) = ErrorResponse("NOT_IMPLEMENTED")
                /\ UNCHANGED <<logs, states, sessions, locked>>
        /\ (tasks'[k] # tasks[k] /\ tasks'[k].op = "record")
             => IF tasks'[k].pc = "done" /\ tasks'[k].res = "OK"
                THEN /\ GovernanceResponse(tasks'[k]).kind = "entry"
                     /\ Len(logs'[tasks[k].trace]) = Len(logs[tasks[k].trace]) + 1
                     /\ Last(logs'[tasks[k].trace]).artifact_type = TOOL_EFFECT
                ELSE /\ UNCHANGED <<logs, states, sessions>>
                     /\ (tasks'[k].pc = "done" /\ tasks'[k].res # "CANCELLED")
                          => GovernanceResponse(tasks'[k])
                               = ErrorResponse("LOGGING_FAILED")]_vars

\* record_tool_effect has failed on a trace with a log, and governance_log has
\* answered LOGGING_FAILED
C30_Witness ==
    /\ tasks["A"].pc = "done" /\ tasks["A"].op = "record"
    /\ tasks["A"].res \notin {"OK", "CANCELLED"}
    /\ GovernanceResponse(tasks["A"]) = ErrorResponse("LOGGING_FAILED")
    /\ logs["t1"] # <<>>

\* C31: the in-memory store accepts as the first entry of a trace exactly the
\* entries whose prev_entry_digest is ZERO_DIGEST, the 43 'A's the runtime
\* writes for genesis, as the SQLite store does: a first entry the SQLite store
\* accepts is appended, and an entry appended first has that digest
C31_AdaptersAgreeOnGenesis ==
    [][\A t \in Traces, in \in DirectInputs :
        (memLogs[t] = <<>> /\ MemAppend(t, in))
        => LET entry == MemEntry(t, in[1], in[2], in[3], in[4], in[5])
           IN  /\ AppendCode(<<>>, NoState, entry) = "OK"
                    => memLogs'[t] = <<entry>>
               /\ memLogs'[t] # <<>>
                    => entry.prev_entry_digest = ZERO_DIGEST]_vars

\* the session expires before the clock reading of sec seconds and a part
ExpiredBefore(s, sec, frac) ==
    s.expires_at < sec \/ (s.expires_at = sec /\ frac > 0)

\* C32: delete_expired_sessions(now) removes exactly the session records with
\* expires_at < now, leaves the others as they are, touches no log or state
\* and returns the number of records removed; a session that
\* authorize_warm_path accepts at that time is not removed (a reading with a
\* part of a second is after expires_at when the next whole second is)
C32_DeleteExpiredExact ==
    [][\A k \in Callers, frac \in Fractions :
        (tasks[k].pc = "idle" /\ tasks'[k].op = "gc"
         /\ DeleteExpiredSessions(k, frac))
        => /\ sessions' = {s \in sessions : ~ExpiredBefore(s, now, frac)}
           /\ UNCHANGED <<logs, states>>
           /\ tasks'[k].count = Cardinality(sessions \ sessions')
           /\ \A s \in sessions :
                WarmPathCode(s, now + frac, s.principal_id, s.tool_server,
                             s.tool_name) = "OK"
                => s \in sessions']_vars

\* the states no transition leaves
TerminalStates == {COMPLETED, FAILED, DENIED}

\* the entries of a log that record an effect
EffectEntries(log) == {i \in 1..Len(log) : log[i].artifact_type = TOOL_EFFECT}

\* the log holds only entries the runtime operations have built
RuntimeWritten(log) ==
    \A i \in 1..Len(log) : log[i].artifact_id.id.kind # "direct"

C34_RecoverCarriesKey ==
    [][\A k \in Tasks :
          (/\ tasks[k].pc = "rcv_list"
           /\ tasks'[k].pc = "done"
           /\ tasks'[k].res = "OK"
           /\ tasks'[k].recovery.re_dispatched)
          => \E i \in 1..Len(logs[tasks[k].trace]) :
                /\ logs[tasks[k].trace][i].artifact_type = TOOL_CALL
                /\ ResultIdempotencyKey(tasks'[k].recovery)
                     = logs[tasks[k].trace][i].idempotency_key]_vars

\* pcs at which a task waits in acquire_trace_lock
WaitPcs == {"auth_acquire", "rec_acquire", "rcv_acquire"}

\* C35: a task cancelled while it waits in acquire_trace_lock releases no
\* lock: the lock of its trace stays held by the operation that holds it
C35_CancelledWaiterKeepsLock ==
    [][\A k \in Tasks :
          (/\ tasks[k].pc \in WaitPcs
           /\ tasks'[k].pc = "done"
           /\ tasks'[k].res = "CANCELLED")
          => locked' = locked]_vars

ToStates(log) == [i \in 1..Len(log) |-> log[i].to_state]

\* the paths of the state machine, from the genesis entry on
StatePaths ==
    { <<PENDING, AUTHORIZED, EXECUTING, COMPLETED>>,
      <<PENDING, AUTHORIZED, EXECUTING, FAILED>> }

\* C37: in the log of a trace each entry's from_state is the to_state of the
\* entry before it (PENDING for the first), and the to_state values are a
\* prefix of PENDING, AUTHORIZED, EXECUTING, then COMPLETED or FAILED
C37_OnePath ==
    \A t \in Traces :
        /\ \A i \in 1..Len(logs[t]) :
              logs[t][i].from_state =
                  (IF i = 1 THEN PENDING ELSE logs[t][i - 1].to_state)
        /\ \E path \in StatePaths : IsPrefix(ToStates(logs[t]), path)

\* a trace has run its whole path
C37_Witness ==
    /\ Len(logs["t1"]) = 4
    /\ ToStates(logs["t1"]) = <<PENDING, AUTHORIZED, EXECUTING, COMPLETED>>

\* the artifact types of a log, in order
ArtifactTypes(log) == [i \in 1..Len(log) |-> log[i].artifact_type]

\* C38: under any interleaving of concurrent authorizations with distinct
\* capabilities for one trace, the log holds four entries at most, of the
\* types action_request, supervisor_decision, tool_call, tool_effect in this
\* order: one tool_call at most, one tool_effect at most, and no tool_effect
\* without a tool_call before it
C38_FourEntries ==
    \A t \in Traces :
        IsPrefix(ArtifactTypes(logs[t]),
                 <<ACTION_REQUEST, SUPERVISOR_DECISION, TOOL_CALL, TOOL_EFFECT>>)

\* an authorization waits for the lock of the trace while an authorization
\* with another capability is appending to it
C38_Witness ==
    \E a, b \in Tasks :
        /\ tasks[a].op = "authorize" /\ tasks[a].pc = "auth_acquire"
        /\ tasks[b].op = "authorize" /\ tasks[b].pc = "auth_reload"
        /\ tasks[a].trace = tasks[b].trace
        /\ tasks[a].tok.id # tasks[b].tok.id
        /\ Len(logs[tasks[b].trace]) = 2

\* C39: all entries of a trace carry the principal_id of its genesis entry
C39_OnePrincipal ==
    \A t \in Traces : \A i \in 1..Len(logs[t]) :
        logs[t][i].principal_id = logs[t][1].principal_id

\* the codes a warm path call fails with
WarmFailures ==
    { "TGA_SESSION_NOT_FOUND", "TGA_SESSION_EXPIRED", "TGA_PRINCIPAL_MISMATCH",
      "TGA_CONSTRAINT_MISMATCH" }

\* C40: an authorize_warm_path that fails (session not found, session
\* expired, principal mismatch, constraint mismatch) leaves the session cache
\* as it was: no session is added, removed or touched, and last_seen_at does
\* not advance
C40_FailedWarmPathKeepsSessions ==
    [][\A k \in Callers :
        (WarmCallStep(k) /\ tasks'[k].pc = "done")
        => /\ tasks'[k].res \in WarmFailures
           /\ sessions' = sessions]_vars

\* a warm path call has failed on a session that exists, and the clock is past
\* the time the session was last seen
C40_Witness ==
    \E k \in Callers :
        /\ tasks[k].pc = "done" /\ tasks[k].op = "warm"
        /\ tasks[k].res \in WarmFailures \ {"TGA_SESSION_NOT_FOUND"}
        /\ LET session == GetSession(sessions, tasks[k].sid)
           IN  session # NoSession /\ session.last_seen_at < now

====
